---- MODULE Spec2Model ----
(***************************************************************************)
(* Model of the logical layer of PushDg (src/src/gameplay.rs) and of the   *)
(* driver that threads its transitions (src/src/main.rs, Game).            *)
(*                                                                         *)
(* A LogicalWorld is a sparse grid (a function from the coordinates that   *)
(* hold a tile to tiles) plus the redo currency.  Every operation of the   *)
(* source that returns a LogicalTransition is an operator that returns a   *)
(* record [resulting_lw, logical_events, panic]; panic is "" when the Rust *)
(* code runs to completion and names the unwrap / assert! / unreachable!   *)
(* that aborts it otherwise.                                               *)
(***************************************************************************)
EXTENDS Integers, Sequences, FiniteSets, TLC

VARIABLES
    logical_world,  \* Game::logical_world, or the world a resolver call is applied to
    phase,          \* Game::phase, without its payload
    transitions,    \* the Vec<LogicalTransition> of Phase::WaitingForAnimationsToFinish
    transition,     \* the last LogicalTransition produced (local of Game::player_move)
    pc,             \* position inside Game::player_move
    call            \* the resolver call that produced `transition`

vars == <<logical_world, phase, transitions, transition, pc, call>>

\* F applied to the value of v (v is evaluated once, as a `let` binding of the code is).
Let(v, F(_)) == CHOOSE r \in {F(x) : x \in {v}} : TRUE

(***************************************************************************)
(* IVec2                                                                   *)
(***************************************************************************)
Add(a, b) == <<a[1] + b[1], a[2] + b[2]>>
Sub(a, b) == <<a[1] - b[1], a[2] - b[2]>>
Neg(a) == <<0 - a[1], 0 - a[2]>>
Abs(n) == IF n < 0 THEN 0 - n ELSE n

four_directions == <<(<<1, 0>>), (<<0, 1>>), (<<-1, 0>>), (<<0, -1>>)>>
Directions == {four_directions[i] : i \in 1..4}

(***************************************************************************)
(* Obj: one record shape for every variant; the fields a variant does not  *)
(* carry hold a fixed default.  None is Option<Obj>::None.                 *)
(***************************************************************************)
NoDirection == <<0, 0>>
MkObj(kind, hp, max_hp, move_token, direction) ==
    [kind |-> kind, hp |-> hp, max_hp |-> max_hp,
     move_token |-> move_token, direction |-> direction]
None == MkObj("None", 0, 0, FALSE, NoDirection)
Plain(kind) == MkObj(kind, 0, 0, FALSE, NoDirection)
Wall == Plain("Wall")
Sword == Plain("Sword")
Shield == Plain("Shield")
Pickaxe == Plain("Pickaxe")
Rock == Plain("Rock")
Exit == Plain("Exit")
VisionGem == Plain("VisionGem")
Heart == Plain("Heart")
RedoHeart == Plain("RedoHeart")
Door == Plain("Door")
Key == Plain("Key")
Rope == Plain("Rope")
Bush == Plain("Bush")
Bunny(hp, max_hp) == MkObj("Bunny", hp, max_hp, FALSE, NoDirection)
Slime(hp, move_token) == MkObj("Slime", hp, 0, move_token, NoDirection)
Shroomer(hp, move_token) == MkObj("Shroomer", hp, 0, move_token, NoDirection)
Shroom(move_token) == MkObj("Shroom", 0, 0, move_token, NoDirection)
Fish(direction, move_token) == MkObj("Fish", 0, 0, move_token, direction)

AgentKinds == {"Slime", "Shroomer", "Shroom", "Fish"}
HpKinds == {"Bunny", "Slime", "Shroomer"}

mass(o) ==
    IF o.kind \in {"Wall", "Door", "Shroom"} THEN 10
    ELSE IF o.kind \in {"Bunny", "Slime", "Shroomer"} THEN 3
    ELSE 1

damages(o) ==
    IF o.kind = "Sword" THEN 3
    ELSE IF o.kind \in {"Shield", "Exit", "Heart", "RedoHeart"} THEN 0
    ELSE IF o.kind = "Slime" THEN 2
    ELSE IF o.kind = "Shroomer" THEN 2
    ELSE 1

\* Obj::hp returns Option<i32>: has_hp tells Some from None, o.hp is the value.
has_hp(o) == o.kind \in HpKinds

take_damage(o, d) == IF o.kind \in HpKinds THEN [o EXCEPT !.hp = @ - d] ELSE o

blocks_vision(o) == o.kind \in {"Wall", "Bush"}

is_enemy(o) == o.kind \in {"Slime", "Shroomer"}

give_move_token_mutant_not_fish(o) ==
    IF o.kind \in AgentKinds \ {"Fish"} THEN [o EXCEPT !.move_token = TRUE] ELSE o
give_move_token(o) == IF o.kind \in AgentKinds THEN [o EXCEPT !.move_token = TRUE] ELSE o

has_move_token(o) == IF o.kind \in AgentKinds THEN o.move_token ELSE FALSE

take_move_token_mutant_keeps(o) == o
take_move_token(o) == IF o.kind \in AgentKinds THEN [o EXCEPT !.move_token = FALSE] ELSE o

(***************************************************************************)
(* Tile and LogicalWorld                                                   *)
(***************************************************************************)
MkTile(o) == [ground |-> "Floor", obj |-> o, visible |-> FALSE]
floor == MkTile(None)

InitialRedoCount == 3
InitialMaxRedoCount == 9
new_empty == [grid |-> <<>>, redo_count |-> InitialRedoCount,
              max_redo_count |-> InitialMaxRedoCount]

place_tile(lw, coords, tile) ==
    [lw EXCEPT !.grid = [c \in (DOMAIN lw.grid) \cup {coords} |->
                            IF c = coords THEN tile ELSE lw.grid[c]]]
place_tile_no_overwrite(lw, coords, tile) ==
    IF coords \in DOMAIN lw.grid THEN lw ELSE place_tile(lw, coords, tile)

has_tile(lw, coords) == coords \in DOMAIN lw.grid
\* LogicalWorld::obj: None when the tile is absent or holds no object
obj(lw, coords) == IF coords \in DOMAIN lw.grid THEN lw.grid[coords].obj ELSE None

\* The coordinates of the tiles that hold a Bunny; player_coords finds one of them.
BunnyCoords(lw) == {c \in DOMAIN lw.grid : lw.grid[c].obj.kind = "Bunny"}
has_player(lw) == BunnyCoords(lw) # {}

(***************************************************************************)
(* LogicalEvent                                                            *)
(***************************************************************************)
EvMove(from, to) == [type |-> "Move", from |-> from, to |-> to]
EvFailToMove(from, to) == [type |-> "FailToMove", from |-> from, to |-> to]
EvHit(at, d) == [type |-> "Hit", at |-> at, damages |-> d]
EvKilled(o, at, d) == [type |-> "Killed", obj |-> o, at |-> at, damages |-> d]
EvMined(o, at) == [type |-> "Mined", obj |-> o, at |-> at]
EvDoorOpenedWithKey(k, d, from, to) ==
    [type |-> "DoorOpenedWithKey", key_obj |-> k, door_obj |-> d, from |-> from, to |-> to]
EvHealed(o, at) == [type |-> "Healed", obj |-> o, at |-> at]
EvRedoGained(o, at) == [type |-> "RedoGained", obj |-> o, at |-> at]
EvExit(o, from, to) == [type |-> "Exit", obj |-> o, from |-> from, to |-> to]
EvMoveInto(o, from, to) == [type |-> "MoveInto", obj |-> o, from |-> from, to |-> to]
EvStomped(o, at) == [type |-> "Stomped", obj |-> o, at |-> at]

(***************************************************************************)
(* InteractionConsequences (NoInteraction is Option::None)                 *)
(***************************************************************************)
MkInteraction(type, d, at) == [type |-> type, damages |-> d, at |-> at]
NoInteraction == MkInteraction("None", 0, NoDirection)

allows_move_mutant_always(i) == TRUE
allows_move(i) == i.type # "NonLethalHit"

what_would_happen_if_interact_mutant_strict(src_obj, dst_obj, dst_coords) ==
    IF dst_obj.kind = "Exit" THEN MkInteraction("Exit", 0, dst_coords)
    ELSE IF src_obj.kind = "Pickaxe" /\ dst_obj.kind = "Wall" THEN MkInteraction("Mine", 0, NoDirection)
    ELSE IF src_obj.kind = "Key" /\ dst_obj.kind = "Door" THEN MkInteraction("KeyOpenDoor", 0, NoDirection)
    ELSE IF src_obj.kind = "Bunny" /\ dst_obj.kind = "Heart" THEN MkInteraction("Heal", 0, NoDirection)
    ELSE IF src_obj.kind = "Bunny" /\ dst_obj.kind = "RedoHeart" THEN MkInteraction("GainARedo", 0, NoDirection)
    ELSE IF dst_obj.kind = "Shroom" THEN MkInteraction("StompShroom", 0, NoDirection)
    ELSE IF has_hp(dst_obj) THEN
        IF dst_obj.hp < damages(src_obj)
        THEN MkInteraction("Kill", damages(src_obj), NoDirection)
        ELSE MkInteraction("NonLethalHit", damages(src_obj), NoDirection)
    ELSE NoInteraction
what_would_happen_if_interact(src_obj, dst_obj, dst_coords) ==
    IF dst_obj.kind = "Exit" THEN MkInteraction("Exit", 0, dst_coords)
    ELSE IF src_obj.kind = "Pickaxe" /\ dst_obj.kind = "Wall" THEN MkInteraction("Mine", 0, NoDirection)
    ELSE IF src_obj.kind = "Key" /\ dst_obj.kind = "Door" THEN MkInteraction("KeyOpenDoor", 0, NoDirection)
    ELSE IF src_obj.kind = "Bunny" /\ dst_obj.kind = "Heart" THEN MkInteraction("Heal", 0, NoDirection)
    ELSE IF src_obj.kind = "Bunny" /\ dst_obj.kind = "RedoHeart" THEN MkInteraction("GainARedo", 0, NoDirection)
    ELSE IF dst_obj.kind = "Shroom" THEN MkInteraction("StompShroom", 0, NoDirection)
    ELSE IF has_hp(dst_obj) THEN
        IF dst_obj.hp <= damages(src_obj)
        THEN MkInteraction("Kill", damages(src_obj), NoDirection)
        ELSE MkInteraction("NonLethalHit", damages(src_obj), NoDirection)
    ELSE NoInteraction

(***************************************************************************)
(* what_would_happen_if_try_to_move                                        *)
(***************************************************************************)
MkScan(success, removed, fi, panic) ==
    [success |-> success, removed |-> removed, final_interaction |-> fi, panic |-> panic]

\* The `while length_removed_due_to_interaction < length` loop of the push walk.
RECURSIVE ScanBackwards(_, _, _, _, _)
ScanBackwards(lw, coords, direction, length, removed) ==
    IF removed < length THEN
        LET src_obj == obj(lw, Sub(coords, direction))
            dst_obj == obj(lw, coords)
        IN  IF src_obj = None \/ dst_obj = None
            THEN MkScan(FALSE, removed, NoInteraction, "unwrap of None: chain object")
            ELSE LET fi == what_would_happen_if_interact(src_obj, dst_obj, coords)
                 IN  IF fi # NoInteraction
                     THEN MkScan(allows_move(fi), removed, fi, "")
                     ELSE ScanBackwards(lw, Sub(coords, direction), direction,
                                        length, removed + 1)
    ELSE MkScan(FALSE, removed, NoInteraction, "")

\* Line 551: all the force of the pusher was used up.
force_blocked_mutant_nonpositive(remaining_force) == remaining_force <= 0
force_blocked_mutant_inverted(remaining_force) == remaining_force > 0
force_blocked(remaining_force) == remaining_force < 0

MkPush(success, length, fi, panic) ==
    [success |-> success, length |-> length, final_interaction |-> fi, panic |-> panic]

\* Lines 575-577: the walk reaches a coordinate that holds no tile.
off_the_grid_mutant_succeeds(length) == MkPush(TRUE, length, NoInteraction, "")
off_the_grid(length) == MkPush(FALSE, length, NoInteraction, "")

\* The 'success loop; coords0, remaining_force0, length0 are the values of the
\* loop variables when an iteration starts.
RECURSIVE PushWalk_mutant_full_length(_, _, _, _, _)
PushWalk_mutant_full_length(lw, coords0, direction, remaining_force0, length0) ==
    LET coords == Add(coords0, direction)
        length == length0 + 1
    IN  IF has_tile(lw, coords) THEN
            IF lw.grid[coords].obj # None THEN
                LET remaining_force == remaining_force0 - mass(lw.grid[coords].obj)
                IN  IF force_blocked(remaining_force) THEN
                        LET s == ScanBackwards(lw, coords, direction, length, 0)
                        IN  MkPush(s.success, length, s.final_interaction, s.panic)
                    ELSE PushWalk_mutant_full_length(lw, coords, direction,
                                                     remaining_force, length)
            ELSE MkPush(TRUE, length, NoInteraction, "")
        ELSE off_the_grid(length)
RECURSIVE PushWalk(_, _, _, _, _)
PushWalk(lw, coords0, direction, remaining_force0, length0) ==
    LET coords == Add(coords0, direction)
        length == length0 + 1
    IN  IF has_tile(lw, coords) THEN
            IF lw.grid[coords].obj # None THEN
                LET remaining_force == remaining_force0 - mass(lw.grid[coords].obj)
                IN  IF force_blocked(remaining_force) THEN
                        LET s == ScanBackwards(lw, coords, direction, length, 0)
                        IN  MkPush(s.success,
                                   IF s.final_interaction # NoInteraction
                                   THEN length - s.removed ELSE length,
                                   s.final_interaction, s.panic)
                    ELSE PushWalk(lw, coords, direction, remaining_force, length)
            ELSE MkPush(TRUE, length, NoInteraction, "")
        ELSE off_the_grid(length)

\* The pull loop; returns pulled_length.
RECURSIVE PullWalk(_, _, _, _, _, _)
PullWalk(lw, coords0, direction, remaining_force0, pulled_length, can_pull_next) ==
    LET coords == Sub(coords0, direction)
        dst_obj == obj(lw, coords)
    IN  IF dst_obj # None THEN
            IF dst_obj.kind = "Rope" \/ can_pull_next THEN
                LET remaining_force == remaining_force0 - mass(dst_obj)
                IN  IF remaining_force < 0 THEN pulled_length
                    ELSE PullWalk(lw, coords, direction, remaining_force,
                                  pulled_length + 1, dst_obj.kind = "Rope")
            ELSE pulled_length
        ELSE pulled_length

\* MoveAttemptConsequences, plus the panic of the scan
what_would_happen_if_try_to_move_mutant_pulls_any(lw, mover_coords, direction, force) ==
    LET push == PushWalk(lw, mover_coords, direction, force, 0)
    IN  [success |-> push.success,
         non_pulled_length |-> push.length,
         pulled_length |-> PullWalk(lw, mover_coords, direction, force, 0, TRUE),
         final_interaction |-> push.final_interaction,
         panic |-> push.panic]
what_would_happen_if_try_to_move(lw, mover_coords, direction, force) ==
    LET push == PushWalk(lw, mover_coords, direction, force, 0)
    IN  [success |-> push.success,
         non_pulled_length |-> push.length,
         pulled_length |-> PullWalk(lw, mover_coords, direction, force, 0, FALSE),
         final_interaction |-> push.final_interaction,
         panic |-> push.panic]

(***************************************************************************)
(* try_to_move                                                             *)
(***************************************************************************)
SetObj(grid, coords, o) == [grid EXCEPT ![coords].obj = o]

\* The state of the `for _ in 0..non_pulled_length` loop.
MkLoop(grid, events, coords, previous_obj, panic) ==
    [grid |-> grid, events |-> events, coords |-> coords,
     previous_obj |-> previous_obj, panic |-> panic]

\* Lines 628-631: an object taken out of its tile by the loop, as the loop keeps it.
RetakenObj_mutant_keeps_direction(taken, direction) == taken
RetakenObj_mutant_drops_token(taken, direction) ==
    IF taken.kind = "Fish" THEN Fish(direction, FALSE) ELSE taken
RetakenObj(taken, direction) ==
    IF taken.kind = "Fish" THEN Fish(direction, taken.move_token) ELSE taken

\* One iteration of the loop over the push chain.
PushLoopBody_mutant_copies(st, success, direction, final_interaction) ==
    IF st.panic # "" THEN st
    ELSE IF success THEN
        LET previous_obj == RetakenObj(st.grid[st.coords].obj, direction)
        IN  MkLoop(IF st.previous_obj = None THEN st.grid
                   ELSE SetObj(st.grid, st.coords, st.previous_obj),
                   IF previous_obj # None
                   THEN Append(st.events, EvMove(st.coords, Add(st.coords, direction)))
                   ELSE st.events,
                   Add(st.coords, direction), previous_obj, "")
    ELSE MkLoop(st.grid,
                Append(st.events, EvFailToMove(st.coords, Add(st.coords, direction))),
                Add(st.coords, direction), st.previous_obj, "")
PushLoopBody_mutant_exit_moves(st, success, direction, final_interaction) ==
    IF success /\ st.panic = "" /\ st.coords \in DOMAIN st.grid
    THEN LET previous_obj == RetakenObj(st.grid[st.coords].obj, direction)
         IN  MkLoop(SetObj(st.grid, st.coords, st.previous_obj),
                    Append(st.events, EvMove(st.coords, Add(st.coords, direction))),
                    Add(st.coords, direction), previous_obj, "")
    ELSE MkLoop(st.grid,
                Append(st.events, EvFailToMove(st.coords, Add(st.coords, direction))),
                Add(st.coords, direction), st.previous_obj, st.panic)
PushLoopBody(st, success, direction, final_interaction) ==
    IF st.panic # "" THEN st
    ELSE IF success THEN
        IF st.coords \notin DOMAIN st.grid
        THEN [st EXCEPT !.panic = "unwrap of None: chain tile"]
        ELSE LET previous_obj == RetakenObj(st.grid[st.coords].obj, direction)
                 is_exiting == /\ final_interaction.type = "Exit"
                               /\ final_interaction.at = Add(st.coords, direction)
             IN  MkLoop(SetObj(st.grid, st.coords, st.previous_obj),
                        IF previous_obj # None /\ ~is_exiting
                        THEN Append(st.events, EvMove(st.coords, Add(st.coords, direction)))
                        ELSE st.events,
                        Add(st.coords, direction), previous_obj, "")
    ELSE MkLoop(st.grid,
                Append(st.events, EvFailToMove(st.coords, Add(st.coords, direction))),
                Add(st.coords, direction), st.previous_obj, "")

RECURSIVE PushLoop(_, _, _, _, _)
PushLoop(st, n, success, direction, final_interaction) ==
    IF n <= 0 THEN st
    ELSE PushLoop(PushLoopBody(st, success, direction, final_interaction),
                  n - 1, success, direction, final_interaction)

\* What the end-of-chain code leaves: grid, events, redo_count, panic.
MkEnd(grid, events, redo_count, panic) ==
    [grid |-> grid, events |-> events, redo_count |-> redo_count, panic |-> panic]

Clamp_mutant_unbounded(n, lo, hi) == IF n < lo THEN lo ELSE n
Clamp(n, lo, hi) == IF n < lo THEN lo ELSE IF n > hi THEN hi ELSE n

\* Lines 651-719: the push succeeded.  grid1 and target are the values of the grid
\* and of previous_obj after the swap of lines 652-655.
EndOfChainSuccess(lw, st, direction, final_interaction) ==
    IF st.coords \notin DOMAIN st.grid
    THEN MkEnd(st.grid, st.events, lw.redo_count, "unwrap of None: tile after the chain")
    ELSE
    LET coords == st.coords
        target == st.grid[coords].obj
        grid1 == SetObj(st.grid, coords, st.previous_obj)
        type == final_interaction.type
        TakeTarget(ev) ==
            IF target = None
            THEN MkEnd(grid1, st.events, lw.redo_count, "unwrap of None: target")
            ELSE MkEnd(grid1, Append(st.events, ev), lw.redo_count, "")
    IN  IF type = "None" THEN
            MkEnd(grid1, st.events, lw.redo_count,
                  IF target = None THEN "" ELSE "assert!(previous_obj.is_none())")
        ELSE IF type = "Kill" THEN
            TakeTarget(EvKilled(target, coords, final_interaction.damages))
        ELSE IF type = "StompShroom" THEN TakeTarget(EvStomped(target, coords))
        ELSE IF type = "Mine" THEN TakeTarget(EvMined(target, coords))
        ELSE IF type = "KeyOpenDoor" THEN
            IF st.previous_obj = None
            THEN MkEnd(grid1, st.events, lw.redo_count, "unwrap of None: key")
            ELSE IF target = None
            THEN MkEnd(grid1, st.events, lw.redo_count, "unwrap of None: door")
            ELSE MkEnd(SetObj(grid1, coords, None),
                       Append(st.events,
                              EvDoorOpenedWithKey(st.previous_obj, target,
                                                  Sub(coords, direction), coords)),
                       lw.redo_count, "")
        ELSE IF type = "Exit" THEN
            \* the second swap puts the Exit back and takes the exiting object
            IF st.previous_obj = None
            THEN MkEnd(st.grid, st.events, lw.redo_count, "unwrap of None: exiting object")
            ELSE MkEnd(SetObj(grid1, coords, target),
                       Append(st.events,
                              EvExit(st.previous_obj, Sub(coords, direction), coords)),
                       lw.redo_count, "")
        ELSE IF type = "Heal" THEN
            IF target = None
            THEN MkEnd(grid1, st.events, lw.redo_count, "unwrap of None: heart")
            ELSE IF st.previous_obj = None
            THEN MkEnd(grid1, st.events, lw.redo_count, "unwrap of None: healed object")
            ELSE IF st.previous_obj.kind # "Bunny"
            THEN MkEnd(grid1, st.events, lw.redo_count, "unreachable!: heal of a non-bunny")
            ELSE LET healed_obj == [st.previous_obj EXCEPT !.hp = st.previous_obj.max_hp]
                 IN  MkEnd(SetObj(grid1, coords, healed_obj),
                           Append(st.events, EvHealed(healed_obj, coords)),
                           lw.redo_count, "")
        ELSE IF type = "GainARedo" THEN
            IF target = None
            THEN MkEnd(grid1, st.events, lw.redo_count, "unwrap of None: redo heart")
            ELSE IF lw.max_redo_count < 0
            THEN MkEnd(grid1, st.events, lw.redo_count, "assert!(min <= max) in clamp")
            ELSE MkEnd(grid1, Append(st.events, EvRedoGained(target, coords)),
                       Clamp(lw.redo_count + 1, 0, lw.max_redo_count), "")
        ELSE MkEnd(grid1, st.events, lw.redo_count,
                   "unreachable!: non-lethal hit in a successful push")

\* Lines 720-740: the push failed.
EndOfChainFailure_mutant_always_hits(lw, st, final_interaction) ==
    MkEnd(IF obj([grid |-> st.grid], st.coords) = None THEN st.grid
          ELSE SetObj(st.grid, st.coords,
                      take_damage(st.grid[st.coords].obj, final_interaction.damages)),
          Append(st.events, EvHit(st.coords, final_interaction.damages)),
          lw.redo_count, "")
EndOfChainFailure_mutant_hits_hitter(lw, st, final_interaction) ==
    IF final_interaction.type = "None" THEN MkEnd(st.grid, st.events, lw.redo_count, "")
    ELSE MkEnd(SetObj(st.grid, st.events[Len(st.events)].from,
                      take_damage(st.grid[st.events[Len(st.events)].from].obj,
                                  final_interaction.damages)),
               Append(st.events, EvHit(st.coords, final_interaction.damages)),
               lw.redo_count, "")
EndOfChainFailure(lw, st, final_interaction) ==
    IF final_interaction.type = "None" THEN MkEnd(st.grid, st.events, lw.redo_count, "")
    ELSE IF final_interaction.type = "NonLethalHit" THEN
        IF obj([grid |-> st.grid], st.coords) = None
        THEN MkEnd(st.grid, st.events, lw.redo_count, "unwrap of None: hit target")
        ELSE MkEnd(SetObj(st.grid, st.coords,
                          take_damage(st.grid[st.coords].obj, final_interaction.damages)),
                   Append(st.events, EvHit(st.coords, final_interaction.damages)),
                   lw.redo_count, "")
    ELSE MkEnd(st.grid, st.events, lw.redo_count,
               "unreachable!: interaction that allows the move in a failed push")

\* Lines 742-750: the pulling.
RECURSIVE PullLoop(_, _, _, _)
PullLoop(e, coords0, direction, n) ==
    IF n <= 0 \/ e.panic # "" THEN e
    ELSE LET coords == Sub(coords0, direction)
             to == Add(coords, direction)
         IN  IF coords \notin DOMAIN e.grid \/ to \notin DOMAIN e.grid
             THEN [e EXCEPT !.panic = "unwrap of None: pulled tile"]
             ELSE PullLoop(MkEnd(SetObj(SetObj(e.grid, coords, None), to,
                                        e.grid[coords].obj),
                                 Append(e.events, EvMove(coords, to)),
                                 e.redo_count, ""),
                           coords, direction, n - 1)

\* Lines 755-763, read from the input world.
adjacent_to_shroom_mutant_never(lw, mover_coords) == FALSE
adjacent_to_shroom_mutant_two_sides(lw, mover_coords) ==
    \E i \in 3..4 : obj(lw, Add(mover_coords, four_directions[i])).kind = "Shroom"
adjacent_to_shroom(lw, mover_coords) ==
    \E i \in 1..4 : obj(lw, Add(mover_coords, four_directions[i])).kind = "Shroom"

\* Lines 752-768: Shroomer tries to shroom.
ShroomerShrooms_mutant_tokened(lw, e, mover_coords) ==
    IF /\ e.panic = ""
       /\ obj(lw, mover_coords).kind = "Shroomer"
       /\ obj([grid |-> e.grid], mover_coords) = None
       /\ ~adjacent_to_shroom(lw, mover_coords)
    THEN [e EXCEPT !.grid = SetObj(e.grid, mover_coords, Shroom(TRUE))]
    ELSE e
ShroomerShrooms_mutant_beside(lw, e, mover_coords) ==
    IF /\ e.panic = ""
       /\ obj(lw, mover_coords).kind = "Shroomer"
       /\ obj([grid |-> e.grid], mover_coords) = None
       /\ ~adjacent_to_shroom(lw, mover_coords)
       /\ Add(mover_coords, <<0, 1>>) \in DOMAIN e.grid
    THEN [e EXCEPT !.grid = SetObj(e.grid, Add(mover_coords, <<0, 1>>), Shroom(FALSE))]
    ELSE e

ShroomerShrooms(lw, e, mover_coords) ==
    IF /\ e.panic = ""
       /\ obj(lw, mover_coords).kind = "Shroomer"
       /\ obj([grid |-> e.grid], mover_coords) = None
       /\ ~adjacent_to_shroom(lw, mover_coords)
    THEN IF mover_coords \notin DOMAIN e.grid
         THEN [e EXCEPT !.panic = "unwrap of None: shroom tile"]
         ELSE [e EXCEPT !.grid = SetObj(e.grid, mover_coords, Shroom(FALSE))]
    ELSE e

MkTransition(lw, events, panic) ==
    [resulting_lw |-> lw, logical_events |-> events, panic |-> panic]

\* impl From<LogicalWorld> for LogicalTransition
into(lw) == MkTransition(lw, <<>>, "")

\* Lines 618-648: the loop over the push chain.
PushChain_mutant_reversed(lw, mover_coords, direction, c) ==
    Let(PushLoop(MkLoop(lw.grid, <<>>, mover_coords, None, ""),
                 c.non_pulled_length, c.success, direction, c.final_interaction),
        LAMBDA st : [st EXCEPT !.events = [i \in 1..Len(@) |-> @[Len(@) + 1 - i]]])
PushChain(lw, mover_coords, direction, c) ==
    PushLoop(MkLoop(lw.grid, <<>>, mover_coords, None, ""),
             c.non_pulled_length, c.success, direction, c.final_interaction)

\* Lines 649-740: the end of the push chain.
EndOfChain_mutant_no_heal(lw, direction, c, st) ==
    IF st.panic # "" THEN MkEnd(st.grid, st.events, lw.redo_count, st.panic)
    ELSE IF c.success THEN
        IF c.final_interaction.type = "Heal"
        THEN Let(EndOfChainSuccess(lw, st, direction, c.final_interaction), LAMBDA end :
                 [end EXCEPT !.grid = SetObj(end.grid, st.coords, st.previous_obj)])
        ELSE EndOfChainSuccess(lw, st, direction, c.final_interaction)
    ELSE EndOfChainFailure(lw, st, c.final_interaction)
EndOfChain_mutant_consumes_src(lw, direction, c, st) ==
    IF st.panic # "" THEN MkEnd(st.grid, st.events, lw.redo_count, st.panic)
    ELSE IF c.success THEN
        IF c.final_interaction.type \in {"Kill", "Mine", "StompShroom"}
        THEN Let(EndOfChainSuccess(lw, st, direction, c.final_interaction), LAMBDA end :
                 [end EXCEPT !.grid = SetObj(end.grid, st.coords, None)])
        ELSE EndOfChainSuccess(lw, st, direction, c.final_interaction)
    ELSE EndOfChainFailure(lw, st, c.final_interaction)
EndOfChain_mutant_keeps_key(lw, direction, c, st) ==
    IF st.panic # "" THEN MkEnd(st.grid, st.events, lw.redo_count, st.panic)
    ELSE IF c.success THEN
        IF c.final_interaction.type = "KeyOpenDoor"
        THEN Let(EndOfChainSuccess(lw, st, direction, c.final_interaction), LAMBDA end :
                 [end EXCEPT !.grid = SetObj(end.grid, st.coords, st.previous_obj)])
        ELSE EndOfChainSuccess(lw, st, direction, c.final_interaction)
    ELSE EndOfChainFailure(lw, st, c.final_interaction)
EndOfChain(lw, direction, c, st) ==
    IF st.panic # "" THEN MkEnd(st.grid, st.events, lw.redo_count, st.panic)
    ELSE IF c.success THEN EndOfChainSuccess(lw, st, direction, c.final_interaction)
    ELSE EndOfChainFailure(lw, st, c.final_interaction)

\* Lines 741-750
Pulling_mutant_always(mover_coords, direction, c, end) ==
    PullLoop(end, mover_coords, direction, c.pulled_length)
Pulling(mover_coords, direction, c, end) ==
    IF c.success THEN PullLoop(end, mover_coords, direction, c.pulled_length) ELSE end

\* Line 770; a panic leaves no transition: the input world stands for it.
Done(lw, done) ==
    IF done.panic # "" THEN MkTransition(lw, <<>>, done.panic)
    ELSE MkTransition([lw EXCEPT !.grid = done.grid, !.redo_count = done.redo_count],
                      done.events, "")

try_to_move(lw, mover_coords, direction, force) ==
    Let(what_would_happen_if_try_to_move(lw, mover_coords, direction, force), LAMBDA c :
        IF c.panic # "" THEN MkTransition(lw, <<>>, c.panic)
        ELSE Let(PushChain(lw, mover_coords, direction, c), LAMBDA st :
             Let(EndOfChain(lw, direction, c, st), LAMBDA end :
             Let(Pulling(mover_coords, direction, c, end), LAMBDA pulled :
             Let(ShroomerShrooms(lw, pulled, mover_coords), LAMBDA done :
                 Done(lw, done))))))

(***************************************************************************)
(* sacrifice_hit                                                           *)
(***************************************************************************)
sacrifice_hit_mutant_keeps_attacker(lw, hitter_coords, direction) ==
    LET hitter_obj == obj(lw, hitter_coords)
        target_coords == Add(hitter_coords, direction)
        d == damages(hitter_obj)
        target_obj == take_damage(obj(lw, target_coords), d)
        moved == <<EvMoveInto(hitter_obj, hitter_coords, target_coords)>>
    IN  IF target_obj.hp <= 0
        THEN MkTransition([lw EXCEPT !.grid = SetObj(lw.grid, target_coords, None)],
                          Append(moved, EvKilled(target_obj, target_coords, d)), "")
        ELSE MkTransition([lw EXCEPT !.grid = SetObj(lw.grid, target_coords, target_obj)],
                          Append(moved, EvHit(target_coords, d)), "")
sacrifice_hit_mutant_spares(lw, hitter_coords, direction) ==
    LET hitter_obj == obj(lw, hitter_coords)
        target_coords == Add(hitter_coords, direction)
        d == damages(hitter_obj)
        target_obj == take_damage(obj(lw, target_coords), d)
        grid1 == SetObj(lw.grid, hitter_coords, None)
        moved == <<EvMoveInto(hitter_obj, hitter_coords, target_coords)>>
    IN  MkTransition([lw EXCEPT !.grid = SetObj(grid1, target_coords, target_obj)],
                     Append(moved, EvHit(target_coords, d)), "")
sacrifice_hit(lw, hitter_coords, direction) ==
    LET hitter_obj == obj(lw, hitter_coords)
        target_coords == Add(hitter_coords, direction)
        d == damages(hitter_obj)
        target_obj == take_damage(obj(lw, target_coords), d)
        grid1 == SetObj(lw.grid, hitter_coords, None)
        moved == <<EvMoveInto(hitter_obj, hitter_coords, target_coords)>>
    IN  IF hitter_obj = None THEN MkTransition(lw, <<>>, "unwrap of None: hitter")
        ELSE IF obj(lw, target_coords) = None
        THEN MkTransition(lw, <<>>, "unwrap of None: sacrifice target")
        ELSE IF ~has_hp(target_obj)
        THEN MkTransition(lw, <<>>, "unwrap of None: hp of the sacrifice target")
        ELSE IF target_obj.hp <= 0
        THEN MkTransition([lw EXCEPT !.grid = SetObj(grid1, target_coords, None)],
                          Append(moved, EvKilled(target_obj, target_coords, d)), "")
        ELSE MkTransition([lw EXCEPT !.grid = SetObj(grid1, target_coords, target_obj)],
                          Append(moved, EvHit(target_coords, d)), "")

(***************************************************************************)
(* player_coords.  find_map over the HashMap returns the first Bunny tile  *)
(* in iteration order; the worlds of this model hold at most one Bunny     *)
(* (C8_AtMostOneBunny below), so the choice is among one.                  *)
(***************************************************************************)
NoCoords == <<>>
player_coords(lw) ==
    IF BunnyCoords(lw) = {} THEN NoCoords ELSE CHOOSE c \in BunnyCoords(lw) : TRUE

(***************************************************************************)
(* updated_visibility.  Distances are compared through their squares:      *)
(* dist <= 6.5 is dx*dx + dy*dy <= 42 on integer coordinates.  The ray     *)
(* point after k steps of 0.1 along the unit vector of d is k*d/(10*|d|);  *)
(* its rounded coordinates and the 0.3 test are computed exactly on        *)
(* integers (squares of both sides).                                       *)
(***************************************************************************)
VisionRadiusSquared == 42
Dist2(a, b) == (a[1] - b[1]) * (a[1] - b[1]) + (a[2] - b[2]) * (a[2] - b[2])
InRadius(a, b) == Dist2(a, b) <= VisionRadiusSquared

\* round(k * a / (10 * sqrt(d2))), half away from zero, for |a| <= sqrt(d2), k <= 10*sqrt(d2)
RoundedOffset(k, a, d2) ==
    LET n == Abs(a)
        m == CHOOSE m \in 0..n :
                /\ (m = 0 \/ (2 * m - 1) * (2 * m - 1) * 100 * d2 <= 4 * k * k * n * n)
                /\ (m = n \/ (2 * m + 1) * (2 * m + 1) * 100 * d2 > 4 * k * k * n * n)
    IN  IF a < 0 THEN 0 - m ELSE m

\* Has the ray toward a tile at squared distance d2 come within 0.3 of it after k steps?
RayReached(k, d2) == 100 * d2 < (k + 3) * (k + 3)

\* point.round() - player_coords after k steps of the ray toward player_coords + d
RayPoint(d, k) ==
    <<RoundedOffset(k, d[1], d[1] * d[1] + d[2] * d[2]),
      RoundedOffset(k, d[2], d[1] * d[1] + d[2] * d[2])>>

\* The tiles the ray toward player_coords + d looks at, in order, as offsets from
\* player_coords: RayPoint(d, k) for k = 0, 1, ... until RayReached, a run of steps
\* that stay on one tile counted once (the loop asks the same question of the same
\* tile at each of them).
RECURSIVE RayCellsFrom(_, _, _)
RayCellsFrom(d, k, last) ==
    IF RayReached(k, d[1] * d[1] + d[2] * d[2]) THEN <<>>
    ELSE IF RayPoint(d, k) = last THEN RayCellsFrom(d, k + 1, last)
    ELSE <<RayPoint(d, k)>> \o RayCellsFrom(d, k + 1, RayPoint(d, k))

\* RayCellsFrom for every offset within the radius, computed once.
RayOffsets ==
    {d \in (-6..6) \X (-6..6) : d # <<0, 0>> /\ d[1] * d[1] + d[2] * d[2] <= VisionRadiusSquared}
RayCells == [d \in RayOffsets |-> RayCellsFrom(d, 0, <<>>)] @@ <<>>

\* The ray loop of the first pass, from the i-th tile it looks at on: TRUE when a line
\* of sight is established, and when the blocking tile met is the target itself.
RECURSIVE RayMarch(_, _, _, _)
RayMarch(lw, player, coords, i) ==
    IF i > Len(RayCells[Sub(coords, player)]) THEN TRUE
    ELSE LET point_coords == Add(player, RayCells[Sub(coords, player)][i])
         IN  IF blocks_vision(obj(lw, point_coords)) THEN point_coords = coords
             ELSE RayMarch(lw, player, coords, i + 1)

SetVisible(lw, V(_)) ==
    [lw EXCEPT !.grid = [c \in DOMAIN lw.grid |-> [lw.grid[c] EXCEPT !.visible = V(c)]]]

adjacent_to_vision_gem_mutant_never(lw, player) == FALSE

\* Lines 231-248
adjacent_to_vision_gem(lw, player) ==
    \E i \in 1..4 : obj(lw, Add(player, four_directions[i])).kind = "VisionGem"

\* Lines 250-280
FirstPass(lw, player) ==
    LET V(c) == IF player = NoCoords THEN TRUE
                ELSE IF Dist2(player, c) = 0 THEN TRUE
                ELSE InRadius(player, c) /\ RayMarch(lw, player, c, 1)
    IN  SetVisible(lw, V)

HiddenBlocker(lw, player, c) ==
    /\ InRadius(player, c)
    /\ ~lw.grid[c].visible
    /\ blocks_vision(lw.grid[c].obj)
VisibleOpen(lw, c) ==
    /\ has_tile(lw, c)
    /\ lw.grid[c].visible
    /\ ~blocks_vision(lw.grid[c].obj)
VisibleBlocker(lw, c) ==
    /\ has_tile(lw, c)
    /\ lw.grid[c].visible
    /\ blocks_vision(lw.grid[c].obj)

\* Lines 281-304
SecondPass(lw, player) ==
    LET V(c) == \/ lw.grid[c].visible
                \/ /\ player # NoCoords
                   /\ HiddenBlocker(lw, player, c)
                   /\ \E i \in 1..4 : VisibleOpen(lw, Add(c, four_directions[i]))
    IN  SetVisible(lw, V)

perp(v) == <<0 - v[2], v[1]>>

\* Lines 305-349
ThirdPass(lw, player) ==
    LET Corner(c, to_adjacent) ==
            LET adjacent_coords == Add(c, to_adjacent)
                other_adjacent_coords == Add(c, perp(to_adjacent))
                corner_coords == Add(Add(c, to_adjacent), perp(to_adjacent))
                corner_dist == Dist2(corner_coords, player)
                min_dist_is_corner ==
                    /\ corner_dist < Dist2(c, player)
                    /\ corner_dist < Dist2(adjacent_coords, player)
                    /\ corner_dist < Dist2(other_adjacent_coords, player)
            IN  /\ VisibleBlocker(lw, adjacent_coords)
                /\ VisibleBlocker(lw, other_adjacent_coords)
                /\ min_dist_is_corner
                /\ VisibleOpen(lw, corner_coords)
        V(c) == \/ lw.grid[c].visible
                \/ /\ player # NoCoords
                   /\ HiddenBlocker(lw, player, c)
                   /\ \E i \in 1..4 : Corner(c, four_directions[i])
    IN  SetVisible(lw, V)

GemVision_mutant_unbounded(lw, player) ==
    LET V(c) == TRUE
    IN  SetVisible(lw, V)

\* Lines 241-246
GemVision(lw, player) ==
    LET V(c) == InRadius(player, c)
    IN  SetVisible(lw, V)

Visibility(lw, player) ==
    IF player # NoCoords /\ adjacent_to_vision_gem(lw, player)
    THEN GemVision(lw, player)
    ELSE Let(FirstPass(lw, player), LAMBDA first :
         Let(SecondPass(first, player), LAMBDA second :
             ThirdPass(second, player)))

updated_visibility(lw) == Let(player_coords(lw), LAMBDA player : Visibility(lw, player))

\* LogicalTransition::updated_visibility
t_updated_visibility(t) ==
    IF t.panic # "" THEN t
    ELSE Let(t.resulting_lw, LAMBDA lw :
             MkTransition(updated_visibility(lw), t.logical_events, ""))

(***************************************************************************)
(* generated_walls_outside                                                 *)
(***************************************************************************)
\* generation.rs filled_rect(top_left, dimensions), as a set
filled_rect(top_left, dimensions) ==
    {<<x, y>> : x \in top_left[1]..(top_left[1] + dimensions[1] - 1),
                y \in top_left[2]..(top_left[2] + dimensions[2] - 1)}

generated_walls_outside(lw) ==
    LET around == UNION {filled_rect(Sub(c, <<1, 1>>), <<3, 3>>) :
                         c \in {k \in DOMAIN lw.grid : lw.grid[k].obj.kind # "Wall"}}
    IN  [lw EXCEPT !.grid = [c \in (DOMAIN lw.grid) \cup around |->
                                IF c \in DOMAIN lw.grid THEN lw.grid[c] ELSE MkTile(Wall)]]

\* LogicalTransition::generated_walls_outside
t_generated_walls_outside(t) ==
    IF t.panic # "" THEN t
    ELSE Let(t.resulting_lw, LAMBDA lw :
             MkTransition(generated_walls_outside(lw), t.logical_events, ""))

(***************************************************************************)
(* player_move                                                             *)
(***************************************************************************)
player_force == 2
player_move_mutant_default_coords(lw, direction) ==
    Let(IF player_coords(lw) = NoCoords THEN <<0, 0>> ELSE player_coords(lw), LAMBDA coords :
        Let(try_to_move(lw, coords, direction, player_force), LAMBDA moved :
        Let(t_generated_walls_outside(moved), LAMBDA walled :
            t_updated_visibility(walled))))
player_move(lw, direction) ==
    Let(player_coords(lw), LAMBDA coords :
        IF coords # NoCoords
        THEN Let(try_to_move(lw, coords, direction, player_force), LAMBDA moved :
             Let(t_generated_walls_outside(moved), LAMBDA walled :
                 t_updated_visibility(walled)))
        ELSE into(lw))

(***************************************************************************)
(* The agents                                                              *)
(***************************************************************************)
give_move_token_to_agents(lw) ==
    [lw EXCEPT !.grid = [c \in DOMAIN lw.grid |->
                            [lw.grid[c] EXCEPT !.obj = IF @ = None THEN @
                                                       ELSE give_move_token(@)]]]

\* NoDecision is Option<IVec2>::None
NoDecision == <<>>

vision_blocked_mutant_never(lw, coords, direction, target_coords) == FALSE

\* The `loop` of ai_decision, from the tile `coords` (already advanced) on.
RECURSIVE vision_blocked(_, _, _, _)
vision_blocked(lw, coords, direction, target_coords) ==
    IF coords = target_coords THEN FALSE
    ELSE IF blocks_vision(obj(lw, coords)) THEN TRUE
    ELSE vision_blocked(lw, Add(coords, direction), direction, target_coords)

ai_decision(lw, agent_coords) ==
    LET target_coords == player_coords(lw)
        direction ==
            IF agent_coords[1] = target_coords[1]
            THEN (IF target_coords[2] < agent_coords[2] THEN <<0, -1>> ELSE <<0, 1>>)
            ELSE IF agent_coords[2] = target_coords[2]
            THEN (IF target_coords[1] < agent_coords[1] THEN <<-1, 0>> ELSE <<1, 0>>)
            ELSE NoDecision
    IN  IF target_coords = NoCoords THEN NoDecision
        ELSE IF direction = NoDecision THEN NoDecision
        ELSE IF is_enemy(obj(lw, Add(agent_coords, direction))) THEN NoDecision
        ELSE IF vision_blocked(lw, Add(agent_coords, direction), direction, target_coords)
        THEN NoDecision
        ELSE direction

shroom_ai_decision(lw, agent_coords) ==
    LET target_coords == player_coords(lw)
    IN  IF target_coords = NoCoords THEN NoDecision
        ELSE LET direction == Sub(target_coords, agent_coords)
             IN  IF Abs(direction[1]) + Abs(direction[2]) = 1 THEN direction
                 ELSE NoDecision

fish_ai_decision_mutant_without_player(lw, agent_coords) ==
    IF obj(lw, agent_coords).kind # "Fish" THEN NoDecision
    ELSE LET direction == obj(lw, agent_coords).direction
             dst_coords == Add(agent_coords, direction)
             noting_ahead == has_tile(lw, dst_coords) /\ obj(lw, dst_coords) = None
         IN  IF player_coords(lw) = dst_coords \/ noting_ahead THEN direction
             ELSE Neg(direction)

fish_ai_decision_mutant_always_ahead(lw, agent_coords) ==
    IF obj(lw, agent_coords).kind # "Fish" \/ player_coords(lw) = NoCoords THEN NoDecision
    ELSE obj(lw, agent_coords).direction

fish_ai_decision(lw, agent_coords) ==
    IF obj(lw, agent_coords).kind # "Fish" THEN NoDecision
    ELSE LET direction == obj(lw, agent_coords).direction
             dst_coords == Add(agent_coords, direction)
             target_coords == player_coords(lw)
             noting_ahead == has_tile(lw, dst_coords) /\ obj(lw, dst_coords) = None
         IN  IF target_coords = NoCoords THEN NoDecision
             ELSE IF target_coords = dst_coords \/ noting_ahead THEN direction
             ELSE Neg(direction)

\* The coordinates handle_move_for_one_agent may stop at: it shuffles the keys and
\* takes the first one whose object holds a move token.
TokenHolders_mutant_first(lw) ==
    {c \in DOMAIN lw.grid :
        /\ has_move_token(lw.grid[c].obj)
        /\ \A d \in DOMAIN lw.grid :
              has_move_token(lw.grid[d].obj) => (c[2] < d[2] \/ (c[2] = d[2] /\ c[1] <= d[1]))}
TokenHolders(lw) == {c \in DOMAIN lw.grid : has_move_token(lw.grid[c].obj)}

argent_force == 2

\* The decision handle_move_for_one_agent takes for the agent at coords (lines 400-409).
AgentDecision(lw, coords) ==
    IF obj(lw, coords).kind = "Shroom" THEN shroom_ai_decision(lw, coords)
    ELSE IF obj(lw, coords).kind = "Fish" THEN fish_ai_decision(lw, coords)
    ELSE ai_decision(lw, coords)

UsesSacrifice_mutant_shroom_only(lw, coords, direction) == obj(lw, coords).kind = "Shroom"

\* Does the agent at coords, deciding `direction`, use sacrifice_hit (line 414)?
UsesSacrifice(lw, coords, direction) ==
    \/ obj(lw, coords).kind = "Shroom"
    \/ /\ obj(lw, coords).kind = "Shroomer"
       /\ obj(lw, Add(coords, direction)).kind = "Bunny"

\* handle_move_for_one_agent when the shuffle selects the token holder at coords;
\* the function returns None exactly when TokenHolders(lw) is empty.
\* Lines 398-399
TokenTaken(lw, coords) ==
    [lw EXCEPT !.grid = SetObj(lw.grid, coords, take_move_token(lw.grid[coords].obj))]

\* Lines 410-422
AgentActs(res_lw, coords, direction) ==
    IF direction # NoDecision THEN
        IF UsesSacrifice(res_lw, coords, direction)
        THEN Let(sacrifice_hit(res_lw, coords, direction), LAMBDA t : t_updated_visibility(t))
        ELSE Let(try_to_move(res_lw, coords, direction, argent_force),
                 LAMBDA t : t_updated_visibility(t))
    ELSE into(res_lw)

handle_move_for_one_agent_mutant_uses_self(lw, coords) ==
    AgentActs(lw, coords, AgentDecision(lw, coords))
handle_move_for_one_agent(lw, coords) ==
    Let(TokenTaken(lw, coords), LAMBDA res_lw :
    Let(AgentDecision(lw, coords), LAMBDA direction :
        AgentActs(res_lw, coords, direction)))

(***************************************************************************)
(* Bounds of the model                                                     *)
(***************************************************************************)
RowLen == 3      \* tiles of a row world
MaxForce == 2    \* the forces a resolver call is tried with: 0..MaxForce
MaxHp == 3       \* hit points of the objects of the initial worlds: 1..MaxHp
MaxRedoHearts == 7   \* redo hearts of the corridor world
MaxChain == 3    \* rocks in front of the Bunny in a rock row: 0..MaxChain
MaxPulled == 2   \* tiles behind the mover of a rope row

(***************************************************************************)
(* The worlds the resolver is applied to: one row of tiles (0,0), (1,0),   *)
(* ... built with place_tile on new_empty; every other coordinate holds no *)
(* tile (the grid edge).  A row holds one common object, or none, on    *)
(* its tiles, and one pair of neighbouring tiles holds any two objects.    *)
(* Rock rows hold a Bunny, a chain of rocks and possibly an empty tile;    *)
(* scenario rows are the worlds of the documented scenarios.               *)
(***************************************************************************)
RECURSIVE PlaceRow(_, _, _)
PlaceRow(lw, objs, i) ==
    IF i > Len(objs) THEN lw
    ELSE PlaceRow(place_tile(lw, <<i - 1, 0>>, MkTile(objs[i])), objs, i + 1)
RowWorld(objs) == PlaceRow(new_empty, objs, 1)

CommonObjs == {None, Rock}
AnyObjs ==
    {None, Rock, Rope, Wall, Pickaxe, Exit, Key, Door, Heart, RedoHeart, Sword, Shield,
     Shroom(FALSE), Fish(<<1, 0>>, FALSE), Fish(<<0, 1>>, TRUE)}
    \cup {Bunny(h, MaxHp) : h \in 1..MaxHp}
    \cup {Slime(h, FALSE) : h \in 1..MaxHp}
    \cup {Shroomer(h, TRUE) : h \in 1..MaxHp}

\* The row of n tiles that holds a and b on its k-th and (k+1)-th tiles and the
\* objects of rest, in order, on the others.
Row(n, k, a, b, rest) ==
    [i \in 1..n |-> IF i < k THEN rest[i]
                    ELSE IF i = k THEN a
                    ELSE IF i = k + 1 THEN b
                    ELSE rest[i - 2]]

RockRow(k, tail) == <<Bunny(MaxHp, MaxHp)>> \o [i \in 1..k |-> Rock] \o tail

\* A row with the player in front of `tail` (its last object next to the player)
\* and behind `front`.
PullObjs == {None, Rock, Rope, Fish(<<0, 1>>, TRUE)}
RopeFronts ==
    {<<None>>, <<Rock, None>>, <<Rock, Wall>>, <<Sword, Slime(1, FALSE)>>, <<Exit>>}
RopeRow(tail, front) == tail \o <<Bunny(MaxHp, MaxHp)>> \o front

\* A Shroomer with an empty tile on its right and one more tile, beside its own
\* tile or beside the empty one, that holds o.
ShroomerSides == {<<0, 1>>, <<0, -1>>, <<-1, 0>>, <<1, 1>>}
ShroomerWorld(side, o) ==
    place_tile(RowWorld(<<Shroomer(1, FALSE), None>>), side, MkTile(o))

ScenarioRows ==
    {<<Bunny(5, 5), Rock, None>>,
     <<Bunny(5, 5), Wall>>,
     <<Bunny(5, 5), Sword, Slime(5, FALSE)>>}

NoCall == [op |-> "none"]
NoTransition == [resulting_lw |-> new_empty, logical_events |-> <<>>, panic |-> ""]

HasObj(lw) == {c \in DOMAIN lw.grid : lw.grid[c].obj # None}

ResolverInit ==
    /\ \/ \E a \in AnyObjs : logical_world = RowWorld(<<a>>)
       \/ \E n \in 2..RowLen : \E k \in 1..(n - 1), a \in AnyObjs, b \in AnyObjs,
                                  common \in CommonObjs :
              logical_world = RowWorld(Row(n, k, a, b, [i \in 1..(n - 2) |-> common]))
       \/ \E k \in 0..MaxChain, tail \in {<<>>, <<None>>} :
              logical_world = RowWorld(RockRow(k, tail))
       \/ \E n \in 1..MaxPulled : \E tail \in [1..n -> PullObjs], front \in RopeFronts :
              logical_world = RowWorld(RopeRow(tail, front))
       \/ \E side \in ShroomerSides, o \in {None, Rope, Shroom(FALSE)} :
              logical_world = ShroomerWorld(side, o)
       \/ \E row \in ScenarioRows : logical_world = RowWorld(row)
    /\ phase = "WaitingForPlayerToMakeAMove"
    /\ transitions = <<>>
    /\ transition = NoTransition
    /\ pc = "idle"
    /\ call = NoCall

\* try_to_move applied to logical_world
TryToMove ==
    /\ call = NoCall
    /\ \E mover_coords \in HasObj(logical_world), direction \in Directions,
          force \in 0..MaxForce :
        /\ call' = [op |-> "try_to_move", coords |-> mover_coords,
                    direction |-> direction, force |-> force]
        /\ transition' = try_to_move(logical_world, mover_coords, direction, force)
    /\ UNCHANGED <<logical_world, phase, transitions, pc>>

\* sacrifice_hit applied to logical_world, on a target that has hit points
SacrificeHit ==
    /\ call = NoCall
    /\ \E hitter_coords \in HasObj(logical_world), direction \in Directions :
        /\ has_hp(obj(logical_world, Add(hitter_coords, direction)))
        /\ call' = [op |-> "sacrifice_hit", coords |-> hitter_coords,
                    direction |-> direction, force |-> 0]
        /\ transition' = sacrifice_hit(logical_world, hitter_coords, direction)
    /\ UNCHANGED <<logical_world, phase, transitions, pc>>

ResolverNext == TryToMove \/ SacrificeHit
SpecResolver == ResolverInit /\ [][ResolverNext]_vars

(***************************************************************************)
(* Properties of the resolver.  They are stated on the state after a call: *)
(* logical_world is the world the call was made on, call holds its         *)
(* arguments and transition its result.                                    *)
(***************************************************************************)
EventsOfType(t, type) ==
    {i \in 1..Len(t.logical_events) : t.logical_events[i].type = type}
Fails(t) == EventsOfType(t, "FailToMove") # {}
Succeeds(t) == t.panic = "" /\ ~Fails(t)
OnlyEvents(t, type) == EventsOfType(t, type) = 1..Len(t.logical_events)
Called(op) == call.op = op
\* The same call with another force
Retry(force) == try_to_move(logical_world, call.coords, call.direction, force)
\* The i-th tile in front of the mover (behind it when i < 0)
At(i) == <<call.coords[1] + i * call.direction[1], call.coords[2] + i * call.direction[2]>>

\* C1, as claimed: if try_to_move succeeds with a force f1, it succeeds with every
\* greater force f2; raising the force never turns a success into a failure.
C1_ForceMonotonicity ==
    Called("try_to_move") /\ Succeeds(transition)
        => \A f2 \in (call.force + 1)..MaxForce : Succeeds(Retry(f2))

\* C1, amended: if try_to_move succeeds with a force f1 and without a terminal
\* interaction (its events are Move events only: the walk reached an empty tile),
\* it succeeds with every greater force f2.
C1_ForceMonotonicityWithoutInteraction ==
    Called("try_to_move") /\ Succeeds(transition) /\ OnlyEvents(transition, "Move")
        => \A f2 \in (call.force + 1)..MaxForce : Succeeds(Retry(f2))

\* A push of one object that succeeds with force 1 and, retried, with force 2.
C1_Witness ==
    /\ Called("try_to_move") /\ call.force = 1
    /\ Succeeds(transition) /\ OnlyEvents(transition, "Move")
    /\ Len(transition.logical_events) = 2
    /\ Succeeds(Retry(2))

FromTiles(t) == {t.logical_events[i].from : i \in EventsOfType(t, "FailToMove")}

\* C2: when try_to_move fails, every object on the `from` tile of a FailToMove event
\* is unchanged and in place in resulting_lw; when moreover no terminal interaction
\* was found (all events are FailToMove), the whole grid and redo_count are those
\* of the input world.
C2_FailureFrame ==
    Called("try_to_move") /\ Fails(transition)
        => /\ \A c \in FromTiles(transition) :
                /\ obj(logical_world, c) # None
                /\ obj(transition.resulting_lw, c) = obj(logical_world, c)
           /\ OnlyEvents(transition, "FailToMove")
                => /\ transition.resulting_lw.grid = logical_world.grid
                   /\ transition.resulting_lw.redo_count = logical_world.redo_count

\* A failed push of a chain of two objects without interaction (Bunny, Rock, Wall).
C2_Witness ==
    /\ Called("try_to_move") /\ Fails(transition)
    /\ OnlyEvents(transition, "FailToMove")
    /\ FromTiles(transition) = {At(0), At(1)}
    /\ obj(logical_world, At(2)) = Wall

\* The number of steps after which the walk from the mover finds an empty existing
\* tile, every tile before it holding an object; 0 when there is no such tile.
RECURSIVE StepsToEmptyTile(_)
StepsToEmptyTile(n) ==
    IF ~has_tile(logical_world, At(n)) THEN 0
    ELSE IF obj(logical_world, At(n)) = None THEN n
    ELSE StepsToEmptyTile(n + 1)

SameButDirection(a, b) ==
    /\ a.kind = b.kind /\ a.hp = b.hp /\ a.max_hp = b.max_hp
    /\ a.move_token = b.move_token

MovesFromTo(t, from, to) ==
    {i \in EventsOfType(t, "Move") :
        t.logical_events[i].from = from /\ t.logical_events[i].to = to}

\* The tiles of the line of the move: the mover's, those in front of it and behind it.
OnTheLine(c) == \E i \in -RowLen..RowLen : c = At(i)

\* C3: when try_to_move succeeds without terminal interaction, the walk having
\* reached an empty tile after N steps, each of the N chain objects is one tile
\* further with the same kind, hp, max_hp and move_token, exactly one Move event is
\* emitted for it, and no object is lost or duplicated: tiles off the line of the
\* move and beyond the chain are unchanged, and the grid holds as many objects as
\* before, or one more when a Shroomer that moved left a Shroom behind.
C3_Conservation ==
    Called("try_to_move") /\ Succeeds(transition) /\ OnlyEvents(transition, "Move")
        => LET N == StepsToEmptyTile(1)
               res == transition.resulting_lw
               grown == Cardinality(HasObj(res)) - Cardinality(HasObj(logical_world))
           IN  /\ N >= 1
               /\ \A i \in 0..(N - 1) :
                    /\ obj(logical_world, At(i)) # None
                    /\ SameButDirection(obj(res, At(i + 1)), obj(logical_world, At(i)))
                    /\ Cardinality(MovesFromTo(transition, At(i), At(i + 1))) = 1
               /\ DOMAIN res.grid = DOMAIN logical_world.grid
               /\ \A c \in DOMAIN res.grid :
                    ~OnTheLine(c) \/ (\E i \in (N + 1)..RowLen : c = At(i))
                        => res.grid[c] = logical_world.grid[c]
               /\ grown \in {0, 1}
               /\ grown = 1 => /\ obj(logical_world, At(0)).kind = "Shroomer"
                               /\ obj(res, At(0)) = Shroom(FALSE)

\* The Rock scenario: the Bunny at (0,0) pushes with force 2 the Rock at (1,0) into
\* the empty (2,0).
C3_Witness ==
    /\ logical_world = RowWorld(<<Bunny(5, 5), Rock, None>>)
    /\ call = [op |-> "try_to_move", coords |-> <<0, 0>>, direction |-> <<1, 0>>,
               force |-> 2]
    /\ obj(transition.resulting_lw, <<2, 0>>) = Rock
    /\ obj(transition.resulting_lw, <<1, 0>>) = Bunny(5, 5)
    /\ Cardinality(MovesFromTo(transition, <<1, 0>>, <<2, 0>>)) = 1
    /\ Len(transition.logical_events) = 2

\* The hits of a transition: its Killed and Hit events.
HitEvents(t) == EventsOfType(t, "Killed") \cup EventsOfType(t, "Hit")

\* The object that deals the damage of a hit at `at`: the one pushed into the target
\* by try_to_move, the hitter of sacrifice_hit.
Hitter(at) ==
    IF Called("sacrifice_hit") THEN obj(logical_world, call.coords)
    ELSE obj(logical_world, Sub(at, call.direction))

\* C4: in try_to_move and sacrifice_hit, when an object dealing damage d hits a
\* target with h hit points: if h <= d the event is Killed{damages: d} and the
\* target is removed from the grid; if h > d the event is Hit{damages: d}, the
\* target stays on its tile with hp = h - d >= 1 and, in try_to_move, the push
\* fails with FailToMove events.  No object with hp <= 0 stays on the grid.
C4_KillBoundary ==
    (Called("try_to_move") \/ Called("sacrifice_hit")) /\ transition.panic = ""
        => LET res == transition.resulting_lw
           IN  /\ \A i \in HitEvents(transition) :
                    LET ev == transition.logical_events[i]
                        target == obj(logical_world, ev.at)
                        d == damages(Hitter(ev.at))
                    IN  /\ has_hp(target)
                        /\ ev.damages = d
                        /\ target.hp <= d
                            => /\ ev.type = "Killed"
                               /\ ev.obj.kind = target.kind
                               /\ obj(res, ev.at) =
                                    IF Called("sacrifice_hit") THEN None
                                    ELSE RetakenObj(Hitter(ev.at), call.direction)
                        /\ target.hp > d
                            => /\ ev.type = "Hit"
                               /\ obj(res, ev.at) = [target EXCEPT !.hp = target.hp - d]
                               /\ obj(res, ev.at).hp >= 1
                               /\ Called("try_to_move") => Fails(transition)
               /\ Called("sacrifice_hit") => Cardinality(HitEvents(transition)) = 1
               /\ \A c \in HasObj(res) : has_hp(obj(res, c)) => obj(res, c).hp >= 1

\* A hit whose damage equals the hit points of its target: the Sword (3) pushed
\* into a Slime with 3 hit points.
C4_Witness ==
    /\ Called("try_to_move")
    /\ \E i \in EventsOfType(transition, "Killed") :
        LET ev == transition.logical_events[i]
        IN  /\ ev.damages = 3
            /\ obj(logical_world, ev.at) = Slime(3, FALSE)
            /\ Hitter(ev.at) = Sword
            /\ obj(transition.resulting_lw, ev.at) = Sword

\* The events of the interactions that allow the move
AllowingEvents(t) ==
    UNION {EventsOfType(t, type) :
            type \in {"Killed", "Stomped", "Mined", "DoorOpenedWithKey", "Exit",
                      "Healed", "RedoGained"}}

\* C5: try_to_move, on any object of the world, in any of the four directions and
\* with any force >= 0, reaches no unreachable!, no failing assert! and no unwrap of
\* None; a success never comes with a non-lethal hit, and a failure never comes with
\* an interaction other than the non-lethal hit.
C5_NoPanic ==
    Called("try_to_move")
        => /\ transition.panic = ""
           /\ Succeeds(transition) \/ Fails(transition)
           /\ Succeeds(transition) => EventsOfType(transition, "Hit") = {}
           /\ Fails(transition) => AllowingEvents(transition) = {}

\* A successful push that ends in an interaction: the chain of two objects advances
\* and the object displaced from the last tile is consumed by the interaction.
C5_Witness ==
    /\ Called("try_to_move") /\ Succeeds(transition)
    /\ AllowingEvents(transition) # {}
    /\ Cardinality(EventsOfType(transition, "Move")) = 2
    /\ Cardinality(HasObj(transition.resulting_lw))
        = Cardinality(HasObj(logical_world)) - 1

\* Where the forward walk of the call stops, and after how many steps: on an empty
\* existing tile, at the grid edge (a coordinate without tile), or on the first
\* object whose mass makes the remaining force negative.
RECURSIVE WalkStop(_, _)
WalkStop(n, remaining_force) ==
    IF ~has_tile(logical_world, At(n)) THEN [stop |-> "grid edge", steps |-> n]
    ELSE IF obj(logical_world, At(n)) = None THEN [stop |-> "empty tile", steps |-> n]
    ELSE IF remaining_force - mass(obj(logical_world, At(n))) < 0
    THEN [stop |-> "force-blocked", steps |-> n]
    ELSE WalkStop(n + 1, remaining_force - mass(obj(logical_world, At(n))))

ChainAdvanced(t, steps) ==
    \A i \in 0..(steps - 1) :
        SameButDirection(obj(t.resulting_lw, At(i + 1)), obj(logical_world, At(i)))

\* C6, as claimed: the forward walk ends in success whenever it reaches, with
\* remaining force >= 0, an empty tile or the grid edge; the chain objects then each
\* advance one tile.
C6_WalkSucceedsAtEmptyTileOrEdge ==
    Called("try_to_move")
        => LET w == WalkStop(1, call.force)
           IN  w.stop \in {"empty tile", "grid edge"}
                => Succeeds(transition) /\ ChainAdvanced(transition, w.steps)

\* C6, amended: the forward walk ends in success when it reaches, with remaining
\* force >= 0, an empty existing tile, and the chain objects then each advance one
\* tile; when it reaches the grid edge the move fails: the grid is unchanged and
\* the events are the FailToMove of the mover and of every object up to the edge.
C6_WalkSucceedsAtEmptyTileFailsAtEdge ==
    Called("try_to_move")
        => LET w == WalkStop(1, call.force)
           IN  /\ w.stop = "empty tile"
                    => Succeeds(transition) /\ ChainAdvanced(transition, w.steps)
               /\ w.stop = "grid edge"
                    => /\ Fails(transition)
                       /\ transition.resulting_lw = logical_world
                       /\ transition.logical_events
                            = [i \in 1..w.steps |-> EvFailToMove(At(i - 1), At(i))]

\* A walk that reaches the grid edge with force left, behind a chain of two objects.
C6_Witness ==
    /\ Called("try_to_move") /\ call.force = 2
    /\ WalkStop(1, call.force) = [stop |-> "grid edge", steps |-> 2]
    /\ obj(logical_world, At(1)) = Rock
    /\ Len(transition.logical_events) = 2

\* The mass of the k objects in front of the mover
RECURSIVE ChainMass(_)
ChainMass(k) == IF k <= 0 THEN 0 ELSE ChainMass(k - 1) + mass(obj(logical_world, At(k)))

\* C7: a push whose chain, in front of an empty existing tile, has a total mass
\* at most the force -- in particular exactly the force, the remaining force
\* reaching 0 -- succeeds; and a push that is force-blocked without interaction is
\* blocked at the first object that makes the remaining force strictly negative.
C7_ZeroForceBoundary ==
    Called("try_to_move")
        => LET N == StepsToEmptyTile(1)
               k == Cardinality(FromTiles(transition))
           IN  /\ N >= 1 /\ ChainMass(N - 1) <= call.force
                    => Succeeds(transition) /\ OnlyEvents(transition, "Move")
               /\ (Fails(transition) /\ OnlyEvents(transition, "FailToMove")
                        /\ has_tile(logical_world, At(k)))
                    => /\ \A i \in 1..k : obj(logical_world, At(i)) # None
                       /\ ChainMass(k) > call.force
                       /\ ChainMass(k - 1) <= call.force

\* With force 2 the Bunny pushes two Rocks (total mass 2) into an empty tile.
C7_Witness ==
    /\ logical_world = RowWorld(RockRow(2, <<None>>))
    /\ call = [op |-> "try_to_move", coords |-> <<0, 0>>, direction |-> <<1, 0>>,
               force |-> 2]
    /\ ChainMass(2) = call.force
    /\ Succeeds(transition)
    /\ obj(transition.resulting_lw, <<3, 0>>) = Rock

(***************************************************************************)
(* The game: Game::player_move and EventHandler::update of main.rs driving *)
(* the LogicalWorld of gameplay.rs.  The initial worlds are rooms built as *)
(* the generator builds them (generate_empty_room, then place_tile).       *)
(***************************************************************************)
\* generation.rs line_rect(top_left, dimensions), as a set
line_rect(top_left, dimensions) ==
    filled_rect(top_left, dimensions)
        \ filled_rect(Add(top_left, <<1, 1>>), Sub(dimensions, <<2, 2>>))

generate_empty_room(lw, top_left, dimensions) ==
    [lw EXCEPT !.grid =
        [c \in (DOMAIN lw.grid) \cup filled_rect(top_left, dimensions) |->
            IF c \in DOMAIN lw.grid THEN lw.grid[c]
            ELSE IF c \in line_rect(top_left, dimensions) THEN MkTile(Wall)
            ELSE floor]]

\* place_tile of objs[i][2] at objs[i][1], for every i
RECURSIVE PlaceAll(_, _, _)
PlaceAll(lw, objs, i) ==
    IF i > Len(objs) THEN lw
    ELSE PlaceAll(place_tile(lw, objs[i][1], MkTile(objs[i][2])), objs, i + 1)

Room(dimensions, objs) == PlaceAll(generate_empty_room(new_empty, <<0, 0>>, dimensions), objs, 1)

\* A room of 3 x 3 floor tiles with the player, two enemies, a fish and a sword.
ArenaWorlds ==
    {Room(<<5, 5>>, <<(<<(<<1, 1>>), Bunny(h, MaxHp)>>), (<<(<<3, 1>>), Slime(s, FALSE)>>),
                      (<<(<<2, 2>>), Sword>>), (<<(<<3, 3>>), Shroomer(s, FALSE)>>),
                      (<<(<<1, 3>>), Fish(<<1, 0>>, FALSE)>>)>>) :
        h \in 1..MaxHp, s \in 1..MaxHp}

\* A corridor: the player, then MaxRedoHearts redo hearts in a line, then the wall.
RECURSIVE RedoHeartLine(_)
RedoHeartLine(n) ==
    IF n = 0 THEN <<>> ELSE Append(RedoHeartLine(n - 1), <<(<<n + 1, 1>>), RedoHeart>>)
CorridorWorlds ==
    {Room(<<MaxRedoHearts + 3, 3>>,
          <<(<<(<<1, 1>>), Bunny(1, MaxHp)>>)>> \o RedoHeartLine(MaxRedoHearts))}

\* A room of 3 x 2 floor tiles with the player, a rope, a heart, an exit and a shroom.
StoreWorlds ==
    {Room(<<5, 4>>, <<(<<(<<2, 1>>), Bunny(h, MaxHp)>>), (<<(<<1, 1>>), Rope>>),
                      (<<(<<3, 1>>), Heart>>), (<<(<<3, 2>>), Exit>>),
                      (<<(<<1, 2>>), Shroom(FALSE)>>)>>) : h \in 1..MaxHp}

\* A room of 3 x 2 floor tiles: a fish between a rock, which it faces, and a
\* pickaxe that lies against the wall of the room; the player, between two walls.
MineWorlds ==
    {Room(<<5, 4>>, <<(<<(<<2, 2>>), Bunny(MaxHp, MaxHp)>>), (<<(<<1, 2>>), Wall>>),
                      (<<(<<3, 2>>), Wall>>), (<<(<<1, 1>>), Pickaxe>>),
                      (<<(<<2, 1>>), Fish(<<1, 0>>, FALSE)>>), (<<(<<3, 1>>), Rock>>)>>)}

\* A row of 4 floor tiles: a shroom, a rope, the player, a free tile.
YardWorlds ==
    {Room(<<6, 3>>, <<(<<(<<1, 1>>), Shroom(FALSE)>>), (<<(<<2, 1>>), Rope>>),
                      (<<(<<3, 1>>), Bunny(MaxHp, MaxHp)>>)>>)}

GameWorlds == ArenaWorlds \cup CorridorWorlds \cup StoreWorlds \cup MineWorlds \cup YardWorlds

GameInit ==
    /\ logical_world \in GameWorlds
    /\ phase = "WaitingForPlayerToMakeAMove"
    /\ transitions = <<>>
    /\ transition = NoTransition
    /\ pc = "idle"
    /\ call = NoCall

\* Game::player_move, lines 1010-1018: the player's transition, then the move tokens.
PlayerMove ==
    /\ phase = "WaitingForPlayerToMakeAMove"
    /\ pc = "idle"
    /\ \E direction \in Directions : \E t \in {player_move(logical_world, direction)} :
            /\ call' = [op |-> "player_move", coords |-> player_coords(logical_world),
                        direction |-> direction, force |-> player_force]
            /\ IF t.panic # ""
               THEN /\ pc' = "panicked"
                    /\ transition' = t
                    /\ UNCHANGED <<logical_world, transitions>>
               ELSE /\ pc' = "agents"
                    /\ logical_world' = t.resulting_lw
                    /\ transition' = [t EXCEPT !.resulting_lw = give_move_token_to_agents(@)]
                    /\ transitions' = <<>>
    /\ UNCHANGED phase

\* One iteration of the `while let Some(next_transition)` loop, lines 1019-1022.
AgentTurn ==
    /\ pc = "agents"
    /\ \E coords \in TokenHolders(transition.resulting_lw) :
        \E next_transition \in {handle_move_for_one_agent(transition.resulting_lw, coords)} :
            /\ call' = [op |-> "handle_move_for_one_agent", coords |-> coords,
                        direction |-> AgentDecision(transition.resulting_lw, coords),
                        force |-> argent_force]
            /\ transition' = next_transition
            /\ IF next_transition.panic # ""
               THEN pc' = "panicked" /\ UNCHANGED transitions
               ELSE pc' = pc /\ transitions' = Append(transitions, next_transition)
    /\ UNCHANGED <<logical_world, phase>>

AgentsDone_mutant_early ==
    /\ pc = "agents"
    /\ pc' = "idle"
    /\ phase' = "WaitingForAnimationsToFinish"
    /\ transition' = NoTransition
    /\ call' = NoCall
    /\ UNCHANGED <<logical_world, transitions>>

AgentsDone_mutant_skips_animations ==
    /\ pc = "agents"
    /\ TokenHolders(transition.resulting_lw) = {}
    /\ pc' = "idle"
    /\ phase' = "WaitingForPlayerToMakeAMove"
    /\ transition' = NoTransition
    /\ call' = NoCall
    /\ UNCHANGED <<logical_world, transitions>>

\* handle_move_for_one_agent returns None: the loop ends, line 1023.
AgentsDone ==
    /\ pc = "agents"
    /\ TokenHolders(transition.resulting_lw) = {}
    /\ pc' = "idle"
    /\ phase' = "WaitingForAnimationsToFinish"
    /\ transition' = NoTransition
    /\ call' = NoCall
    /\ UNCHANGED <<logical_world, transitions>>

Update_mutant_lifo ==
    /\ pc = "idle"
    /\ phase = "WaitingForAnimationsToFinish"
    /\ IF transitions = <<>>
       THEN /\ phase' = "WaitingForPlayerToMakeAMove"
            /\ UNCHANGED <<logical_world, transitions>>
       ELSE /\ logical_world' = transitions[Len(transitions)].resulting_lw
            /\ transitions' = SubSeq(transitions, 1, Len(transitions) - 1)
            /\ UNCHANGED phase
    /\ UNCHANGED <<transition, pc, call>>

\* EventHandler::update when no animation is running, lines 1029-1043.
Update ==
    /\ pc = "idle"
    /\ phase = "WaitingForAnimationsToFinish"
    /\ IF transitions = <<>>
       THEN /\ phase' = "WaitingForPlayerToMakeAMove"
            /\ UNCHANGED <<logical_world, transitions>>
       ELSE /\ logical_world' = Head(transitions).resulting_lw
            /\ transitions' = Tail(transitions)
            /\ UNCHANGED phase
    /\ UNCHANGED <<transition, pc, call>>

Next == PlayerMove \/ AgentTurn \/ AgentsDone \/ Update
Spec == GameInit /\ [][Next]_vars

\* The loop of Game::player_move runs to its end once entered, and the event loop
\* keeps calling update: when animations always eventually finish, update eventually
\* finds none running.
\* The rooms of the game in which every object that has hit points has one: the
\* fights are short, the turns are those of all the rooms.
QuickWorlds ==
    {w \in GameWorlds :
        \A c \in DOMAIN w.grid : w.grid[c].obj.kind \in HpKinds => w.grid[c].obj.hp = 1}
    \cup MineWorlds \cup YardWorlds
QuickInit == GameInit /\ logical_world \in QuickWorlds
FairSpec ==
    /\ QuickInit
    /\ [][Next]_vars
    /\ WF_vars(AgentTurn) /\ WF_vars(AgentsDone) /\ WF_vars(Update)

(***************************************************************************)
(* Properties of the game                                                  *)
(***************************************************************************)
\* Every world the game holds: the current one, the one the agents are being
\* handled on, and those of the transitions waiting to be animated.
Worlds ==
    {logical_world, transition.resulting_lw}
        \cup {transitions[i].resulting_lw : i \in 1..Len(transitions)}

\* C8: in every world reached from a world with at most one Bunny by player_move,
\* give_move_token_to_agents and handle_move_for_one_agent, at most one tile holds
\* a Bunny.
C8_AtMostOneBunny == \A lw \in Worlds : Cardinality(BunnyCoords(lw)) <= 1

\* The Bunny has moved one tile and an agent has then moved in the same world.
C8_Witness ==
    /\ pc = "agents" /\ Len(transitions) >= 1
    /\ \E c \in BunnyCoords(logical_world) :
        MovesFromTo(transitions[1], c, c) = {} /\ BunnyCoords(transition.resulting_lw) = {c}
    /\ EventsOfType(transition, "Move") # {}
    /\ logical_world \notin GameWorlds

RedoInRange(lw) ==
    /\ lw.max_redo_count = InitialMaxRedoCount
    /\ 0 <= lw.redo_count /\ lw.redo_count <= lw.max_redo_count

Min(a, b) == IF a < b THEN a ELSE b

\* What a step of the resolver or of the scheduler does to the redo count: t is
\* the transition it returns, before the world it was applied to.
RedoStep(before, t) ==
    /\ t.resulting_lw.max_redo_count = before.max_redo_count
    /\ t.resulting_lw.redo_count =
        IF EventsOfType(t, "RedoGained") # {}
        THEN Min(before.redo_count + 1, before.max_redo_count)
        ELSE before.redo_count

\* C9: from redo_count = 3 and max_redo_count = 9, 0 <= redo_count <= max_redo_count
\* holds after any sequence of moves; a move that gains a redo (RedoGained event)
\* sets redo_count to min(redo_count + 1, max_redo_count), and no other move of the
\* player or of an agent, nor the handing out of the move tokens, changes
\* redo_count or max_redo_count.
C9_RedoClamp ==
    /\ [](\A lw \in Worlds : RedoInRange(lw))
    /\ [][/\ (pc = "idle" /\ pc' = "agents")
                => /\ RedoStep(logical_world, transition')
                   /\ logical_world'.redo_count = transition'.resulting_lw.redo_count
          /\ (pc = "agents" /\ transitions' # transitions)
                => RedoStep(transition.resulting_lw, transition')]_vars

\* A redo is gained when redo_count is already max_redo_count: more redo hearts
\* were taken than redo_count was below max_redo_count at the start.
C9_Witness ==
    /\ call.op = "player_move"
    /\ EventsOfType(transition, "RedoGained") # {}
    /\ transition.resulting_lw.redo_count = InitialMaxRedoCount
    /\ LET hearts == {c \in HasObj(logical_world) : obj(logical_world, c) = RedoHeart}
       IN  MaxRedoHearts - Cardinality(hearts) > InitialMaxRedoCount - InitialRedoCount

Agents(lw) == {c \in HasObj(lw) : obj(lw, c).kind \in AgentKinds}
Holders(lw) == Cardinality(TokenHolders(lw))

\* C10: after give_move_token_to_agents, the loop that feeds each resulting_lw back
\* into handle_move_for_one_agent collects at most K transitions, K being the
\* number of token holders at the start (the agents of the world the player moved
\* in): the transitions collected and the token holders left never exceed K
\* together; each agent turn strictly decreases the number of token holders; and
\* no other step sets a token: the world the player moves in and the world the
\* move results in hold no token, and the tokens handed out are those of its agents.
C10_AgentPhaseTerminates ==
    /\ [](pc = "agents"
            => Len(transitions) + Holders(transition.resulting_lw)
                    <= Cardinality(Agents(logical_world)))
    /\ [](phase = "WaitingForPlayerToMakeAMove" => TokenHolders(logical_world) = {})
    /\ [][/\ (pc = "agents" /\ transitions' # transitions)
                => Holders(transition'.resulting_lw) < Holders(transition.resulting_lw)
          /\ (pc = "idle" /\ pc' = "agents")
                => /\ TokenHolders(transition'.resulting_lw) = Agents(logical_world')
                   /\ transitions' = <<>>]_vars

\* The loop has ended after one turn of each of three agents.
C10_Witness ==
    /\ pc = "agents"
    /\ Holders(transition.resulting_lw) = 0
    /\ Len(transitions) = 3
    /\ Cardinality(Agents(logical_world)) = 3

\* A step of the loop of Game::player_move: one call of handle_move_for_one_agent
\* that returned a transition.
AgentTurnStep == pc = "agents" /\ transitions' # transitions

\* The token holders a transition removed from the grid: the objects of its
\* Killed, Stomped and Exit events that held a move token.
RemovedHolders(t) ==
    Cardinality({i \in EventsOfType(t, "Killed") \cup EventsOfType(t, "Stomped")
                        \cup EventsOfType(t, "Exit") :
                    t.logical_events[i].obj.move_token})

RECURSIVE RemovedHoldersUpTo(_)
RemovedHoldersUpTo(n) ==
    IF n = 0 THEN 0 ELSE RemovedHoldersUpTo(n - 1) + RemovedHolders(transitions[n])

\* C11: within one player turn every agent acts exactly once: each turn selects
\* an object that holds a token, and takes away exactly that token and those of
\* the token holders the move removes from the grid, so that the turns made, the
\* token holders removed and the token holders left always add up to the K agents
\* given a token; when the loop ends no token is left.  A Shroom spawned during
\* the turn holds no token and is not selected.
C11_OneActionPerAgent ==
    /\ [](pc = "agents"
            => Len(transitions) + RemovedHoldersUpTo(Len(transitions))
                    + Holders(transition.resulting_lw)
                = Cardinality(Agents(logical_world)))
    /\ [][AgentTurnStep
            => /\ has_move_token(obj(transition.resulting_lw, call'.coords))
               /\ Holders(transition'.resulting_lw)
                    = Holders(transition.resulting_lw) - 1 - RemovedHolders(transition')]_vars

\* The loop has ended after one turn of each of three agents, one of which, a
\* Shroomer, left a Shroom that took no turn.
C11_Witness ==
    /\ pc = "agents"
    /\ Holders(transition.resulting_lw) = 0
    /\ Len(transitions) = 3
    /\ Cardinality(Agents(logical_world)) = 3
    /\ Cardinality(Agents(transition.resulting_lw)) = 4

\* The tiles whose object holds a move token, read off the objects' fields.
TokenTiles(lw) == {c \in DOMAIN lw.grid : lw.grid[c].obj.move_token}

\* The tiles whose object a transition removed from the grid.
RemovedFrom(t) ==
    {t.logical_events[i].at : i \in EventsOfType(t, "Killed") \cup EventsOfType(t, "Stomped")}
        \cup {t.logical_events[i].from :
                i \in EventsOfType(t, "Exit") \cup EventsOfType(t, "MoveInto")}

\* The tile on which a transition leaves the object that was on c.
Dest(t, c) ==
    IF \E i \in EventsOfType(t, "Move") : t.logical_events[i].from = c
    THEN (CHOOSE e \in {t.logical_events[i] : i \in EventsOfType(t, "Move")} : e.from = c).to
    ELSE c

\* C12: handle_move_for_one_agent returns None (the loop ends) exactly when no
\* object of the world holds a move token; otherwise every token holder is a
\* possible selection, whatever its place in the grid; in the resulting world the
\* selected agent, if still on the grid, holds no token, and every other agent
\* still on the grid holds the token it held before.
C12_AnyHolderSelectedOnlyItsTokenTaken ==
    /\ [](pc = "agents"
            => /\ (ENABLED AgentsDone) <=> (TokenTiles(transition.resulting_lw) = {})
               /\ (ENABLED AgentTurn) <=> (TokenTiles(transition.resulting_lw) # {})
               /\ \A c \in TokenTiles(transition.resulting_lw) :
                    ENABLED (AgentTurn /\ call'.coords = c))
    /\ [][AgentTurnStep
            => \A c \in Agents(transition.resulting_lw) \ RemovedFrom(transition') :
                /\ obj(transition'.resulting_lw, Dest(transition', c)).kind
                        = obj(transition.resulting_lw, c).kind
                /\ obj(transition'.resulting_lw, Dest(transition', c)).move_token
                        = IF c = call'.coords THEN FALSE
                          ELSE obj(transition.resulting_lw, c).move_token]_vars

\* The agent selected is not the first token holder of the grid; it has moved,
\* and another agent still holds its token.
C12_Witness ==
    /\ pc = "agents" /\ Called("handle_move_for_one_agent")
    /\ Len(transitions) = 1
    /\ MovesFromTo(transition, call.coords, Add(call.coords, call.direction)) # {}
    /\ \E c \in TokenTiles(transition.resulting_lw) :
            c[2] < call.coords[2] \/ (c[2] = call.coords[2] /\ c[1] < call.coords[1])

\* C13: when the decision of the selected agent is none, the transition returned
\* has an empty event log, and its resulting_lw is the input world with that
\* agent's move_token false: every tile, object, hp, direction, visibility flag,
\* other token and the redo counts are those of the input world.
C13_NoDecisionOnlyTakesToken ==
    [][AgentTurnStep /\ call'.direction = NoDecision
        => /\ transition'.logical_events = <<>>
           /\ transition'.resulting_lw =
                [transition.resulting_lw EXCEPT !.grid[call'.coords].obj.move_token = FALSE]
           /\ transition'.resulting_lw # transition.resulting_lw]_vars

\* An agent that held a token took its turn without a decision, in a world where
\* another agent still holds its token.
C13_Witness ==
    /\ pc = "agents" /\ Called("handle_move_for_one_agent")
    /\ call.direction = NoDecision
    /\ transitions # <<>> /\ transition.logical_events = <<>>
    /\ ~obj(transition.resulting_lw, call.coords).move_token
    /\ TokenTiles(transition.resulting_lw) # {}

\* C14: player_move on a world that holds no Bunny returns, for every direction,
\* a transition with an empty event log whose resulting_lw is the input world:
\* same tiles, objects, visibility flags and redo counts; the game then goes on
\* from that same world.
C14_PlayerMoveWithoutPlayer ==
    /\ [](pc = "idle" /\ BunnyCoords(logical_world) = {}
            => \A direction \in Directions :
                /\ player_move(logical_world, direction).logical_events = <<>>
                /\ player_move(logical_world, direction).resulting_lw = logical_world
                /\ player_move(logical_world, direction).panic = "")
    /\ [][pc = "idle" /\ pc' # "idle" /\ BunnyCoords(logical_world) = {}
            => /\ pc' = "agents"
               /\ transition'.logical_events = <<>>
               /\ logical_world' = logical_world]_vars

\* The player has asked for a move in a world whose Bunny is gone and whose
\* agents are still there.
C14_Witness ==
    /\ pc = "agents" /\ Called("player_move")
    /\ call.coords = NoCoords
    /\ BunnyCoords(logical_world) = {}
    /\ Agents(logical_world) # {}
    /\ transition.logical_events = <<>>

InteractionEvents ==
    {"Hit", "Killed", "Mined", "DoorOpenedWithKey", "Healed", "RedoGained", "Exit", "Stomped"}

\* The log t is made of n events of the push chain, from the mover's onwards, then
\* of m terminal-interaction events, then of the moves of pulled objects, from the
\* one next to the mover backwards.
OrderedLog(t, n, m) ==
    /\ \A i \in 1..n :
        /\ t.logical_events[i].type \in {"Move", "FailToMove"}
        /\ t.logical_events[i].from = At(i - 1)
        /\ t.logical_events[i].to = At(i)
    /\ \A i \in (n + 1)..(n + m) : t.logical_events[i].type \in InteractionEvents
    /\ \A j \in 1..(Len(t.logical_events) - n - m) :
        t.logical_events[n + m + j] = EvMove(At(-j), At(1 - j))

\* C15: the log of every try_to_move holds first the Move or FailToMove events of
\* the push chain, in order of increasing distance from the mover, whose own event
\* is the first; then at most one terminal-interaction event (Hit, Killed, Mined,
\* DoorOpenedWithKey, Healed, RedoGained, Exit or Stomped); then the Move events of
\* the pulled objects, the nearest to the mover first.
C15_EventOrder ==
    Called("try_to_move") /\ transition.panic = ""
        => \E n \in 0..Len(transition.logical_events), m \in 0..1 :
            /\ n + m <= Len(transition.logical_events)
            /\ OrderedLog(transition, n, m)

\* A log with two events of the push chain, a terminal interaction and the moves
\* of two pulled objects.
C15_Witness ==
    /\ Called("try_to_move")
    /\ Len(transition.logical_events) = 5
    /\ OrderedLog(transition, 2, 1)
    /\ transition.logical_events[3].type = "Killed"

\* Is `from` the tile of the mover or a tile in front of it?
InPushChain(from) == \E k \in 0..Len(transition.logical_events) : from = At(k)

\* The Move events of a transition whose `from` tile held a Fish.
FishMoves(t) == {i \in EventsOfType(t, "Move") : obj(logical_world, t.logical_events[i].from).kind = "Fish"}

\* C16, as claimed: a Fish moved by a successful try_to_move, as mover or as pushed
\* object, has in resulting_lw the direction field it had before, also when that
\* direction differs from the direction of the push.
C16_FishKeepsDirection ==
    Called("try_to_move") /\ Succeeds(transition)
        => \A i \in FishMoves(transition) :
            InPushChain(transition.logical_events[i].from)
                => obj(transition.resulting_lw, transition.logical_events[i].to).direction
                        = obj(logical_world, transition.logical_events[i].from).direction

\* C16, amended: a Fish moved in the push chain of a successful try_to_move in
\* direction d, as mover or as pushed object, has direction d in resulting_lw,
\* whatever its direction was, and keeps its move_token; a Fish moved by the pull
\* keeps both its direction and its move_token.
C16_FishTakesPushDirection ==
    Called("try_to_move") /\ Succeeds(transition)
        => \A i \in FishMoves(transition) :
            obj(transition.resulting_lw, transition.logical_events[i].to) =
                IF InPushChain(transition.logical_events[i].from)
                THEN Fish(call.direction,
                          obj(logical_world, transition.logical_events[i].from).move_token)
                ELSE obj(logical_world, transition.logical_events[i].from)

\* A Fish whose direction was not that of the push has been pushed one tile by
\* another object and now has the direction of the push.
C16_Witness ==
    /\ Called("try_to_move") /\ Succeeds(transition)
    /\ obj(logical_world, At(1)).kind = "Fish"
    /\ obj(logical_world, At(1)).direction # call.direction
    /\ MovesFromTo(transition, At(1), At(2)) # {}
    /\ obj(transition.resulting_lw, At(2)) = Fish(call.direction, obj(logical_world, At(1)).move_token)

Shrooms(lw) == {c \in DOMAIN lw.grid : lw.grid[c].obj.kind = "Shroom"}

\* The mover of the call was a Shroomer and its tile was left empty by the move:
\* the push succeeded and no pulled object took the tile.
ShroomerVacated(t) ==
    /\ obj(logical_world, At(0)).kind = "Shroomer"
    /\ Succeeds(t)
    /\ \A i \in EventsOfType(t, "Move") : t.logical_events[i].to # At(0)

\* Is the tile c beside a Shroom of the input world?
BesideShroom(c) == \E d \in Directions : obj(logical_world, Add(c, d)).kind = "Shroom"

\* C17, as claimed: when the mover of try_to_move is a Shroomer that moved and left
\* its old tile empty, a Shroom{move_token: false} is placed on the old tile if and
\* only if the Shroomer, at its position after the move, is not orthogonally
\* adjacent to an existing Shroom.
C17_SpawnUnlessNewPositionBesideShroom ==
    /\ Called("try_to_move") /\ transition.panic = ""
    /\ ShroomerVacated(transition)
    /\ MovesFromTo(transition, At(0), At(1)) # {}
    => (obj(transition.resulting_lw, At(0)) = Shroom(FALSE)) <=> ~BesideShroom(At(1))

\* C17, amended: when the mover of try_to_move is a Shroomer and its old tile is
\* empty after the move, a Shroom{move_token: false} is placed on the old tile if
\* and only if the old tile is not orthogonally adjacent to a Shroom of the input
\* world, wherever the Shroomer is after the move; otherwise the old tile stays as
\* the move left it.  When the Shroomer did not vacate its tile or the mover is not
\* a Shroomer, no Shroom is spawned: the tiles that hold a Shroom are as many as before
\* at most, and the mover's tile holds a Shroom only if the mover was one.
C17_SpawnUnlessOldTileBesideShroom ==
    Called("try_to_move") /\ transition.panic = ""
        => IF ShroomerVacated(transition)
           THEN obj(transition.resulting_lw, At(0)) =
                    IF BesideShroom(At(0)) THEN None ELSE Shroom(FALSE)
           ELSE /\ Cardinality(Shrooms(transition.resulting_lw))
                        <= Cardinality(Shrooms(logical_world))
                /\ obj(transition.resulting_lw, At(0)).kind = "Shroom"
                        => obj(logical_world, At(0)).kind = "Shroom"

\* A Shroomer has moved beside a Shroom and has left a Shroom on its old tile,
\* which was beside none.
C17_Witness ==
    /\ Called("try_to_move")
    /\ ShroomerVacated(transition)
    /\ MovesFromTo(transition, At(0), At(1)) # {}
    /\ BesideShroom(At(1)) /\ ~BesideShroom(At(0))
    /\ obj(transition.resulting_lw, At(0)) = Shroom(FALSE)
    /\ obj(transition.resulting_lw, At(1)).kind = "Shroomer"

\* C18: sacrifice_hit always removes the attacker from its tile, whether or not the
\* target dies; its log is MoveInto{obj: attacker, from: its tile, to: the target's
\* tile} followed by exactly one of Killed, when the target's hp minus the
\* attacker's damage is <= 0, the target being removed, or Hit, the target staying
\* with its hp reduced by that damage; no other tile changes, nor do the visibility
\* flags or the redo counts.
C18_SacrificeRemovesAttacker ==
    Called("sacrifice_hit") /\ transition.panic = ""
        => LET res == transition.resulting_lw
               attacker == obj(logical_world, At(0))
               target == obj(logical_world, At(1))
               d == damages(attacker)
           IN  /\ obj(res, At(0)) = None
               /\ Len(transition.logical_events) = 2
               /\ transition.logical_events[1] =
                    [type |-> "MoveInto", obj |-> attacker, from |-> At(0), to |-> At(1)]
               /\ IF target.hp - d <= 0
                  THEN /\ transition.logical_events[2].type = "Killed"
                       /\ transition.logical_events[2].at = At(1)
                       /\ obj(res, At(1)) = None
                  ELSE /\ transition.logical_events[2] =
                            [type |-> "Hit", at |-> At(1), damages |-> d]
                       /\ obj(res, At(1)) = [target EXCEPT !.hp = target.hp - d]
               /\ DOMAIN res.grid = DOMAIN logical_world.grid
               /\ \A c \in DOMAIN res.grid :
                    /\ res.grid[c].visible = logical_world.grid[c].visible
                    /\ c \notin {At(0), At(1)} => res.grid[c] = logical_world.grid[c]
               /\ res.redo_count = logical_world.redo_count
               /\ res.max_redo_count = logical_world.max_redo_count

\* The attacker is gone although its target survived the hit, beside a third
\* object that stayed in place.
C18_Witness ==
    /\ Called("sacrifice_hit")
    /\ Len(transition.logical_events) = 2
    /\ transition.logical_events[2].type = "Hit"
    /\ transition.logical_events[2].damages >= 1
    /\ obj(transition.resulting_lw, At(0)) = None
    /\ obj(transition.resulting_lw, At(1)).hp >= 1
    /\ \E c \in HasObj(transition.resulting_lw) : c # At(1)

\* The distances behind the mover at which a row of the model may hold a tile.
Behind == 1..(RowLen + MaxPulled)

\* The pulled_length that what_would_happen_if_try_to_move computes for the call.
CallPulledLength ==
    what_would_happen_if_try_to_move(logical_world, call.coords, call.direction,
                                     call.force).pulled_length

\* The Move events of a transition whose `from` tile is behind the mover.
PulledMoves(t) ==
    {i \in EventsOfType(t, "Move") : \E j \in Behind : t.logical_events[i].from = At(-j)}

\* C19: the pull requires the success of the push.  When try_to_move fails, no
\* Move event is emitted and no tile behind the mover changes; when it succeeds,
\* each of the pulled_length objects behind the mover is one tile further in the
\* direction of the push, the nearest on the tile the mover left, with exactly one
\* Move event each, and nothing else behind the mover moves.
C19_PullOnlyOnSuccess ==
    Called("try_to_move") /\ transition.panic = ""
        => LET res == transition.resulting_lw
           IN  /\ Fails(transition)
                    => /\ EventsOfType(transition, "Move") = {}
                       /\ \A j \in Behind : has_tile(logical_world, At(-j))
                            => res.grid[At(-j)] = logical_world.grid[At(-j)]
               /\ Succeeds(transition)
                    => /\ \A j \in 1..CallPulledLength :
                            /\ obj(logical_world, At(-j)) # None
                            /\ obj(res, At(1 - j)) = obj(logical_world, At(-j))
                            /\ Cardinality(MovesFromTo(transition, At(-j), At(1 - j))) = 1
                       /\ Cardinality(PulledMoves(transition)) = CallPulledLength
                       /\ CallPulledLength >= 1 => obj(res, At(-CallPulledLength)) = None
                       /\ \A j \in Behind : j > CallPulledLength /\ has_tile(logical_world, At(-j))
                            => res.grid[At(-j)] = logical_world.grid[At(-j)]

\* A push that succeeded has pulled two objects, the nearest onto the tile the
\* mover left.
C19_Witness ==
    /\ Called("try_to_move") /\ Succeeds(transition)
    /\ CallPulledLength = 2
    /\ obj(transition.resulting_lw, At(0)) = Rope
    /\ obj(transition.resulting_lw, At(-1)) = obj(logical_world, At(-2))
    /\ obj(transition.resulting_lw, At(-2)) = None
    /\ Cardinality(PulledMoves(transition)) = 2

RECURSIVE MassBehind(_)
MassBehind(k) == IF k <= 0 THEN 0 ELSE MassBehind(k - 1) + mass(obj(logical_world, At(-k)))

\* The rule of the pull chain for the object at distance k behind the mover.
PullRule(k) ==
    /\ \A i \in 1..k : obj(logical_world, At(-i)) # None
    /\ obj(logical_world, At(-1)) = Rope
    /\ \A i \in 2..k : obj(logical_world, At(-i)) = Rope \/ obj(logical_world, At(1 - i)) = Rope
    /\ MassBehind(k) <= call.force

\* C20: walking backwards from the mover of a successful try_to_move, the object
\* at distance k >= 1 behind the mover is pulled exactly when every tile at
\* distance 1..k holds an object, the object at distance 1 is a Rope, every object
\* at distance 2..k is a Rope or directly follows a pulled Rope, and the masses of the
\* objects at distance 1..k add up to at most the force of the call: the pull is
\* accounted from the full force, whatever the push chain consumed.
C20_PullChainRule ==
    Called("try_to_move") /\ Succeeds(transition)
        => \A k \in Behind : PullRule(k) <=> MovesFromTo(transition, At(-k), At(1 - k)) # {}

\* A push whose chain has mass 1 has pulled, with force 2, two objects of mass 1:
\* a Rope and, behind it, an object that is not a Rope.
C20_Witness ==
    /\ Called("try_to_move") /\ Succeeds(transition)
    /\ call.force = 2
    /\ obj(logical_world, At(1)) = Rock
    /\ MovesFromTo(transition, At(1), At(2)) # {}
    /\ PullRule(2) /\ MassBehind(2) = 2
    /\ obj(logical_world, At(-2)) # Rope
    /\ MovesFromTo(transition, At(-2), At(-1)) # {}

(***************************************************************************)
(* The terminal interactions of try_to_move                                *)
(***************************************************************************)
\* The forward walk of the call is force-blocked, at the tile At(BlockedAt).
Blocked == WalkStop(1, call.force).stop = "force-blocked"
BlockedAt == WalkStop(1, call.force).steps

\* Does the object on At(k - 1) interact with the one on At(k)?
Interacts(k) ==
    what_would_happen_if_interact(obj(logical_world, At(k - 1)), obj(logical_world, At(k)),
                                  At(k)) # NoInteraction

\* The dst tile At(ScanDst) of the interaction the backward scan stops at: the
\* last interacting pair between the mover and the blocking tile; 0 when none.
ScanDst ==
    IF \E k \in 1..BlockedAt : Interacts(k)
    THEN CHOOSE k \in 1..BlockedAt : Interacts(k) /\ \A j \in (k + 1)..BlockedAt : ~Interacts(j)
    ELSE 0

\* What the move leaves on the tile of the mover once the mover is gone: the
\* object pulled onto it, the Shroom of a Shroomer, or nothing.
LeftBehind ==
    IF CallPulledLength >= 1 THEN obj(logical_world, At(-1))
    ELSE IF obj(logical_world, At(0)).kind = "Shroomer" /\ ~BesideShroom(At(0))
    THEN Shroom(FALSE)
    ELSE None

\* The objects of the tiles At(0) .. At(n - 1) are each one tile further, with a
\* Move event, and the tile of the mover holds what the move leaves behind.
Advanced(t, n) ==
    /\ ChainAdvanced(t, n)
    /\ \A i \in 0..(n - 1) : Cardinality(MovesFromTo(t, At(i), At(i + 1))) = 1
    /\ obj(t.resulting_lw, At(0)) = LeftBehind

\* C21: when the interaction of a force-blocked chain is Exit at the tile e, the
\* push succeeds; the object that was on the tile just before e is no longer on
\* the grid and is reported by the one Exit event, Exit{obj, from: e - direction,
\* to: e}, with no Move event for it; the Exit stays on e; and every chain object
\* behind the exiting one is one tile further, with a Move event.
C21_ExitInteraction ==
    (/\ Called("try_to_move") /\ transition.panic = ""
     /\ Blocked /\ ScanDst >= 1 /\ obj(logical_world, At(ScanDst)) = Exit)
        => LET t == transition
               e == ScanDst
           IN  /\ Succeeds(t)
               /\ obj(t.resulting_lw, At(e)) = Exit
               /\ Cardinality(EventsOfType(t, "Exit")) = 1
               /\ \A i \in EventsOfType(t, "Exit") :
                    /\ SameButDirection(t.logical_events[i].obj, obj(logical_world, At(e - 1)))
                    /\ t.logical_events[i].from = At(e - 1)
                    /\ t.logical_events[i].to = At(e)
               /\ \A i \in EventsOfType(t, "Move") : t.logical_events[i].from # At(e - 1)
               /\ Advanced(t, e - 1)
               /\ Cardinality(HasObj(t.resulting_lw)) =
                    Cardinality(HasObj(logical_world)) - 1
                        + (IF CallPulledLength = 0 /\ LeftBehind # None THEN 1 ELSE 0)

\* An object pushed by the mover has left through the Exit, which is still
\* there; the mover has taken the tile of that object.
C21_Witness ==
    /\ Called("try_to_move") /\ Succeeds(transition)
    /\ Blocked /\ ScanDst = 2
    /\ obj(transition.resulting_lw, At(2)) = Exit
    /\ obj(transition.resulting_lw, At(1)) = obj(logical_world, At(0))
    /\ obj(transition.resulting_lw, At(0)) = None
    /\ EventsOfType(transition, "Exit") # {}
    /\ MovesFromTo(transition, At(0), At(1)) # {}

\* C22: when a Key is pushed into a Door that force-blocks the chain, the push
\* succeeds; neither the Key nor the Door is in resulting_lw, the tile of the Door
\* being left empty; every chain object behind the Key is one tile further; and
\* one DoorOpenedWithKey event, from the tile of the Key to the tile of the Door,
\* names both objects.
C22_KeyOpensDoor ==
    (/\ Called("try_to_move") /\ transition.panic = ""
     /\ Blocked
     /\ obj(logical_world, At(BlockedAt)) = Door
     /\ obj(logical_world, At(BlockedAt - 1)) = Key)
        => LET t == transition
               n == BlockedAt
           IN  /\ Succeeds(t)
               /\ obj(t.resulting_lw, At(n)) = None
               /\ Advanced(t, n - 1)
               /\ Cardinality(HasObj(t.resulting_lw)) =
                    Cardinality(HasObj(logical_world)) - 2
                        + (IF CallPulledLength = 0 /\ LeftBehind # None THEN 1 ELSE 0)
               /\ Cardinality({c \in HasObj(t.resulting_lw) :
                                    obj(t.resulting_lw, c) \in {Key, Door}})
                    = Cardinality({c \in HasObj(logical_world) :
                                    obj(logical_world, c) \in {Key, Door}}) - 2
               /\ Cardinality(EventsOfType(t, "DoorOpenedWithKey")) = 1
               /\ \A i \in EventsOfType(t, "DoorOpenedWithKey") :
                    t.logical_events[i] =
                        [type |-> "DoorOpenedWithKey", key_obj |-> Key, door_obj |-> Door,
                         from |-> At(n - 1), to |-> At(n)]

\* The mover has pushed a Key into a Door: both are gone and the mover is on the
\* tile the Key was on.
C22_Witness ==
    /\ Called("try_to_move") /\ Succeeds(transition)
    /\ obj(logical_world, At(1)) = Key /\ obj(logical_world, At(2)) = Door
    /\ obj(transition.resulting_lw, At(2)) = None
    /\ obj(transition.resulting_lw, At(1)) = obj(logical_world, At(0))
    /\ EventsOfType(transition, "DoorOpenedWithKey") # {}

\* The event type of the target-consuming interaction of src with dst, "" when
\* the pair has none: a hit that kills, a Pickaxe into a Wall, anything into a Shroom.
ConsumingEvent(src, dst) ==
    IF dst.kind = "Shroom" THEN "Stomped"
    ELSE IF src.kind = "Pickaxe" /\ dst.kind = "Wall" THEN "Mined"
    ELSE IF has_hp(dst) /\ dst.hp <= damages(src) THEN "Killed"
    ELSE ""

\* C23: when the interaction of a force-blocked chain is a Kill, a Mine (Pickaxe
\* into Wall) or a StompShroom (anything into a Shroom), the push succeeds; the
\* target is removed from the grid and is the obj of the one Killed, Mined or
\* Stomped event, at its tile; the object that was directly before it is on the
\* tile of the target, the Pickaxe included, and every chain object behind it is
\* one tile further.
C23_TargetConsumed ==
    (/\ Called("try_to_move") /\ transition.panic = ""
     /\ Blocked /\ ScanDst >= 1
     /\ ConsumingEvent(obj(logical_world, At(ScanDst - 1)),
                       obj(logical_world, At(ScanDst))) # "")
        => LET t == transition
               n == ScanDst
               type == ConsumingEvent(obj(logical_world, At(n - 1)), obj(logical_world, At(n)))
               events == UNION {EventsOfType(t, ty) : ty \in {"Killed", "Mined", "Stomped"}}
           IN  /\ Succeeds(t)
               /\ Advanced(t, n)
               /\ obj(t.resulting_lw, At(n)).kind = obj(logical_world, At(n - 1)).kind
               /\ Cardinality(events) = 1
               /\ \A i \in events :
                    /\ t.logical_events[i].type = type
                    /\ t.logical_events[i].obj = obj(logical_world, At(n))
                    /\ t.logical_events[i].at = At(n)
               /\ Cardinality(HasObj(t.resulting_lw)) =
                    Cardinality(HasObj(logical_world)) - 1
                        + (IF CallPulledLength = 0 /\ LeftBehind # None THEN 1 ELSE 0)

\* A Pickaxe pushed by the mover has mined a Wall and is on the tile of the Wall.
C23_Witness ==
    /\ Called("try_to_move") /\ Succeeds(transition)
    /\ obj(logical_world, At(1)) = Pickaxe /\ obj(logical_world, At(2)) = Wall
    /\ obj(transition.resulting_lw, At(2)) = Pickaxe
    /\ obj(transition.resulting_lw, At(1)) = obj(logical_world, At(0))
    /\ \E i \in EventsOfType(transition, "Mined") :
            transition.logical_events[i] = [type |-> "Mined", obj |-> Wall, at |-> At(2)]

\* The scan of the force-blocked chain of the call stops at a Bunny in front of
\* a Heart.
BunnyIntoHeart ==
    /\ Blocked /\ ScanDst >= 1
    /\ obj(logical_world, At(ScanDst - 1)).kind = "Bunny"
    /\ obj(logical_world, At(ScanDst)) = Heart

Hearts(lw) == {c \in DOMAIN lw.grid : lw.grid[c].obj = Heart}

\* C24: when the Bunny is pushed into a Heart in a force-blocked chain, the push
\* succeeds, the Heart is removed, the Bunny is on the tile of the Heart with hp
\* equal to its max_hp, max_hp being unchanged, and one Healed event is emitted,
\* at that tile, for the healed Bunny; in no other case does try_to_move emit a
\* Healed event: a Heart reached by any other object heals nothing.
C24_Heal ==
    Called("try_to_move") /\ transition.panic = ""
        => LET t == transition
               n == ScanDst
               bunny == obj(logical_world, At(n - 1))
               healed == [bunny EXCEPT !.hp = bunny.max_hp]
           IN  /\ BunnyIntoHeart
                    => /\ Succeeds(t)
                       /\ obj(t.resulting_lw, At(n)) = healed
                       /\ healed.max_hp = bunny.max_hp
                       /\ Cardinality(Hearts(t.resulting_lw))
                            = Cardinality(Hearts(logical_world)) - 1
                       /\ Advanced(t, n - 1)
                       /\ Cardinality(EventsOfType(t, "Healed")) = 1
                       /\ \A i \in EventsOfType(t, "Healed") :
                            t.logical_events[i] =
                                [type |-> "Healed", obj |-> healed, at |-> At(n)]
               /\ ~BunnyIntoHeart
                    => /\ EventsOfType(t, "Healed") = {}
                       /\ \A c \in HasObj(t.resulting_lw) :
                            obj(t.resulting_lw, c).kind = "Bunny"
                                => \E b \in HasObj(logical_world) :
                                    /\ obj(logical_world, b).kind = "Bunny"
                                    /\ obj(t.resulting_lw, c).hp <= obj(logical_world, b).hp

\* A Bunny with 1 hit point out of MaxHp has taken a Heart and has MaxHp hit points.
C24_Witness ==
    /\ Called("try_to_move") /\ Succeeds(transition)
    /\ BunnyIntoHeart
    /\ obj(logical_world, At(ScanDst - 1)) = Bunny(1, MaxHp)
    /\ obj(transition.resulting_lw, At(ScanDst)) = Bunny(MaxHp, MaxHp)
    /\ EventsOfType(transition, "Healed") # {}

\* The tiles an event names.
EventTiles(ev) ==
    IF ev.type \in {"Move", "FailToMove", "DoorOpenedWithKey", "Exit", "MoveInto"}
    THEN {ev.from, ev.to}
    ELSE {ev.at}

\* C25: when the backward scan finds the terminal interaction r >= 1 tiles behind
\* the force-blocking tile, the Move or FailToMove events of the chain are those of
\* the tiles from the mover up to the src tile of the interaction and of no tile
\* further; every object beyond the dst tile of the interaction, the r skipped
\* objects up to the blocking one, is unchanged in resulting_lw and is named by
\* no event.
C25_ChainShortening ==
    (Called("try_to_move") /\ Blocked /\ ScanDst >= 1 /\ ScanDst < BlockedAt)
        => LET t == transition
               n == ScanDst
           IN  /\ t.panic = ""
               /\ \A i \in EventsOfType(t, "Move") \cup EventsOfType(t, "FailToMove") :
                    \/ \E k \in 0..(n - 1) : t.logical_events[i].from = At(k)
                    \/ \E j \in Behind : t.logical_events[i].from = At(-j)
               /\ \A k \in 0..(n - 1) :
                    \/ /\ obj(logical_world, At(k + 1)) = Exit
                       /\ k = n - 1
                    \/ \E i \in EventsOfType(t, "Move") \cup EventsOfType(t, "FailToMove") :
                            t.logical_events[i].from = At(k)
               /\ \A k \in (n + 1)..BlockedAt :
                    /\ t.resulting_lw.grid[At(k)] = logical_world.grid[At(k)]
                    /\ obj(logical_world, At(k)) # None
                    /\ \A i \in 1..Len(t.logical_events) :
                            At(k) \notin EventTiles(t.logical_events[i])

\* The Bunny has taken a Heart that a Rock behind the Heart kept from moving:
\* the Rock is in place and no event names its tile.
C25_Witness ==
    /\ Called("try_to_move") /\ Succeeds(transition)
    /\ Blocked /\ BlockedAt = 2 /\ ScanDst = 1
    /\ obj(logical_world, At(1)) = Heart
    /\ obj(logical_world, At(2)) = Rock
    /\ obj(transition.resulting_lw, At(2)) = Rock
    /\ obj(transition.resulting_lw, At(1)).kind = "Bunny"
    /\ Len(transition.logical_events) = 2

\* C26: when the chain is force-blocked and no pair of adjacent objects, from the
\* blocking tile back to the mover, yields an interaction, the blockage is
\* absolute: the event log is exactly one FailToMove{from: mover + i * direction,
\* to: mover + (i + 1) * direction} for each i in 0..length-1, in that order,
\* length being the distance from the mover to the blocking tile, and nothing else.
C26_AbsoluteBlockage ==
    (Called("try_to_move") /\ Blocked /\ \A k \in 1..BlockedAt : ~Interacts(k))
        => /\ transition.panic = ""
           /\ transition.logical_events
                = [i \in 1..BlockedAt |-> [type |-> "FailToMove", from |-> At(i - 1),
                                           to |-> At(i)]]

\* Two objects in front of a third that blocks them, without interaction: two
\* FailToMove events.
C26_Witness ==
    /\ Called("try_to_move") /\ Blocked
    /\ BlockedAt = 2 /\ ScanDst = 0
    /\ transition.logical_events = <<EvFailToMove(At(0), At(1)), EvFailToMove(At(1), At(2))>>

(***************************************************************************)
(* The topology of the worlds of the game                                  *)
(***************************************************************************)
Neighbours(c) == {<<c[1] + dx, c[2] + dy>> : dx \in -1..1, dy \in -1..1} \ {c}

\* Every tile that does not hold a Wall has its eight neighbours in the grid.
WalledOutside(lw) ==
    \A c \in DOMAIN lw.grid :
        lw.grid[c].obj.kind # "Wall" => Neighbours(c) \subseteq DOMAIN lw.grid

\* C27, as claimed: in the resulting_lw of every transition produced during play,
\* by player_move and by every agent turn of handle_move_for_one_agent, every tile
\* that does not hold a Wall has all eight neighbouring coordinates in the grid.
C27_WalledOutsideAfterEveryTransition ==
    pc = "agents" => WalledOutside(transition.resulting_lw)


(***************************************************************************)
(* The senses.  updated_visibility and ai_decision are functions of a      *)
(* LogicalWorld alone: this specification draws a room and applies them.   *)
(* The rooms are two floor rows of VisionLen tiles inside their walls,     *)
(* long enough for tiles to lie beyond the vision radius, with the player  *)
(* (if any) in a corner, and vision-blocking objects, vision gems and      *)
(* enemies at the tiles around it.                                         *)
(***************************************************************************)
VisionLen == 8

VisionObjs == {None, Wall, Bush, VisionGem, Slime(1, FALSE), Shroomer(1, FALSE)}
BunnySpots == {NoCoords, <<1, 1>>, <<4, 2>>}

VisionRoom(spot, a, b, c, d, e) ==
    Let(Room(<<VisionLen + 2, 4>>,
             <<(<<(<<2, 1>>), a>>), (<<(<<3, 1>>), b>>), (<<(<<4, 1>>), c>>),
               (<<(<<1, 2>>), d>>), (<<(<<3, 2>>), e>>)>>),
        LAMBDA room : IF spot = NoCoords THEN room
                      ELSE place_tile(room, spot, MkTile(Bunny(MaxHp, MaxHp))))

VisionWorlds(spots) ==
    {VisionRoom(spot, a, b, c, d, e) :
        spot \in spots, a \in VisionObjs, b \in VisionObjs, c \in VisionObjs,
        d \in {None, Wall, VisionGem, Slime(1, FALSE)}, e \in {None, Bush, Shroomer(1, FALSE)}}

VisionInit ==
    /\ logical_world \in VisionWorlds(BunnySpots)
    /\ phase = "WaitingForPlayerToMakeAMove"
    /\ transitions = <<>>
    /\ transition = NoTransition
    /\ pc = "idle"
    /\ call = NoCall

\* updated_visibility applied to logical_world
UpdatedVisibility ==
    /\ call = NoCall
    /\ call' = [op |-> "updated_visibility", coords |-> player_coords(logical_world),
                direction |-> NoDecision, force |-> 0]
    /\ transition' = [NoTransition EXCEPT !.resulting_lw = updated_visibility(logical_world)]
    /\ UNCHANGED <<logical_world, phase, transitions, pc>>

\* ai_decision applied to an enemy of logical_world; call.direction is what it returns
AiDecision ==
    /\ call = NoCall
    /\ \E agent_coords \in {c \in HasObj(logical_world) : is_enemy(obj(logical_world, c))} :
        call' = [op |-> "ai_decision", coords |-> agent_coords,
                 direction |-> ai_decision(logical_world, agent_coords), force |-> 0]
    /\ UNCHANGED <<logical_world, phase, transitions, transition, pc>>

VisionNext == UpdatedVisibility \/ AiDecision
SpecVision == VisionInit /\ [][VisionNext]_vars

(***************************************************************************)
(* Visibility                                                              *)
(***************************************************************************)
Seen == transition.resulting_lw
Far(c, player) ==
    (c[1] - player[1]) * (c[1] - player[1]) + (c[2] - player[2]) * (c[2] - player[2]) > 42
NothingFarVisible(lw, player) ==
    \A c \in DOMAIN lw.grid : Far(c, player) => ~lw.grid[c].visible

\* C28: after updated_visibility on a world with a player, the tile of the player is
\* visible, and no tile with dx*dx + dy*dy > 42 from the player is visible, in the
\* result (vision-gem branch included) and after the first and the second pass.
C28_PlayerVisibleNothingFarVisible ==
    (Called("updated_visibility") /\ call.coords # NoCoords)
        => /\ Seen.grid[call.coords].visible
           /\ NothingFarVisible(Seen, call.coords)
           /\ NothingFarVisible(FirstPass(logical_world, call.coords), call.coords)
           /\ NothingFarVisible(SecondPass(FirstPass(logical_world, call.coords),
                                           call.coords), call.coords)

\* The player in the corner, a wall below it, a vision gem beside it: the tile at
\* distance 6 along the row is visible, the tile at distance 7 is in the grid, hidden.
C28_Witness ==
    /\ Called("updated_visibility") /\ call.coords = <<1, 1>>
    /\ obj(logical_world, <<1, 2>>) = Wall
    /\ obj(logical_world, <<2, 1>>) = VisionGem
    /\ Seen.grid[<<1, 1>>].visible
    /\ Seen.grid[<<7, 1>>].visible
    /\ <<8, 1>> \in DOMAIN Seen.grid /\ ~Seen.grid[<<8, 1>>].visible

GemBeside(lw, player) == \E d \in Directions : obj(lw, Add(player, d)) = VisionGem

\* C29: when one of the four orthogonal neighbours of the player holds a VisionGem,
\* a tile is visible after updated_visibility if and only if dx*dx + dy*dy <= 42 from
\* the player, whatever blocks vision; without a player every tile is visible.
C29_VisionGemSeesThrough ==
    Called("updated_visibility")
        => /\ (call.coords # NoCoords /\ GemBeside(logical_world, call.coords))
                => \A c \in DOMAIN Seen.grid :
                        Seen.grid[c].visible <=> ~Far(c, call.coords)
           /\ (call.coords = NoCoords)
                => \A c \in DOMAIN Seen.grid : Seen.grid[c].visible

\* A vision gem below the player and a wall two tiles along the row: the tiles behind
\* the wall are visible up to distance 6, and the bush of the other row as well.
C29_Witness ==
    /\ Called("updated_visibility") /\ call.coords = <<1, 1>>
    /\ obj(logical_world, <<1, 2>>) = VisionGem
    /\ obj(logical_world, <<2, 1>>) = None
    /\ obj(logical_world, <<3, 1>>) = Wall
    /\ obj(logical_world, <<3, 2>>) = Bush
    /\ \A x \in 4..7 : Seen.grid[<<x, 1>>].visible /\ Seen.grid[<<x, 2>>].visible
    /\ ~Seen.grid[<<8, 1>>].visible

(***************************************************************************)
(* The chase                                                               *)
(***************************************************************************)
Sign(n) == IF n < 0 THEN -1 ELSE IF n > 0 THEN 1 ELSE 0
Toward(from, to) == <<Sign(to[1] - from[1]), Sign(to[2] - from[2])>>
SharesAxis(a, b) == a[1] = b[1] \/ a[2] = b[2]
Within(n, i, j) == (i < n /\ n < j) \/ (j < n /\ n < i)
\* The tiles strictly between two tiles of one row or of one column
StrictlyBetween(a, b) ==
    {c \in DOMAIN logical_world.grid :
        \/ c[2] = a[2] /\ c[2] = b[2] /\ Within(c[1], a[1], b[1])
        \/ c[1] = a[1] /\ c[1] = b[1] /\ Within(c[2], a[2], b[2])}
Chases(agent, player) ==
    /\ player # NoCoords
    /\ SharesAxis(agent, player)
    /\ obj(logical_world, Add(agent, Toward(agent, player))).kind \notin {"Slime", "Shroomer"}
    /\ \A c \in StrictlyBetween(agent, player) :
            obj(logical_world, c).kind \notin {"Wall", "Bush"}

\* C30: ai_decision returns a direction if and only if there is a player, the agent
\* shares its x or its y with it, the tile one step toward the player holds neither a
\* Slime nor a Shroomer, and neither Wall nor Bush lies strictly between the two; the
\* direction returned is the unit step toward the player.
C30_ChaseDecision ==
    Called("ai_decision")
        => LET player == player_coords(logical_world)
           IN  /\ call.direction # NoDecision <=> Chases(call.coords, player)
               /\ call.direction # NoDecision
                    => call.direction = Toward(call.coords, player)

\* An enemy three tiles along the row from the player, nothing between: it steps
\* toward the player.
C30_Witness ==
    /\ Called("ai_decision") /\ call.coords = <<4, 1>>
    /\ player_coords(logical_world) = <<1, 1>>
    /\ obj(logical_world, <<2, 1>>) = None /\ obj(logical_world, <<3, 1>>) = None
    /\ call.direction = <<-1, 0>>

(***************************************************************************)
(* The turns of the agents                                                 *)
(***************************************************************************)
\* The log of sacrifice_hit starts with MoveInto, an event try_to_move never logs.
Sacrificed(t) == t.logical_events # <<>> /\ t.logical_events[1].type = "MoveInto"
OneStepAway(a, b) == b # NoCoords /\ Abs(b[1] - a[1]) + Abs(b[2] - a[2]) = 1

\* C31: a selected Shroom decides a direction exactly when the player is one
\* orthogonal step away, and its turn is then sacrifice_hit toward the player; the
\* turn of a Shroomer whose step leads onto the player is sacrifice_hit; every other
\* turn with a direction is try_to_move with force 2; sacrifice_hit is only used with
\* a Bunny on the target tile.
C31_AgentDispatch ==
    [][AgentTurnStep
        => LET lw == transition.resulting_lw
               coords == call'.coords
               direction == call'.direction
               kind == obj(lw, coords).kind
               player == player_coords(lw)
               res_lw == [lw EXCEPT !.grid[coords].obj.move_token = FALSE]
               sacrifices == \/ kind = "Shroom"
                             \/ kind = "Shroomer" /\ Add(coords, direction) = player
           IN  /\ (kind = "Shroom")
                    => (direction # NoDecision <=> OneStepAway(coords, player))
               /\ (direction # NoDecision /\ sacrifices)
                    => /\ Add(coords, direction) = player
                       /\ Sacrificed(transition')
                       /\ transition'
                            = t_updated_visibility(sacrifice_hit(res_lw, coords, direction))
               /\ (direction # NoDecision /\ ~sacrifices)
                    => /\ ~Sacrificed(transition')
                       /\ transition'
                            = t_updated_visibility(try_to_move(res_lw, coords, direction, 2))
               /\ Sacrificed(transition')
                    => obj(lw, Add(coords, direction)).kind = "Bunny"]_vars

\* A Shroomer beside the player took its turn: its log starts with its MoveInto the
\* tile of the player.
C31_Witness ==
    /\ pc = "agents" /\ Called("handle_move_for_one_agent")
    /\ call.direction # NoDecision
    /\ Sacrificed(transition)
    /\ transition.logical_events[1].obj.kind = "Shroomer"
    /\ transition.logical_events[1].from = call.coords
    /\ transition.logical_events[1].to = Add(call.coords, call.direction)

FishTurn == AgentTurnStep /\ obj(transition.resulting_lw, call'.coords).kind = "Fish"
\* Is the tile ahead of the Fish at coords the tile of the player, or a tile without object?
FreeAhead(lw, coords) ==
    LET ahead == Add(coords, obj(lw, coords).direction)
    IN  \/ ahead = player_coords(lw)
        \/ ahead \in DOMAIN lw.grid /\ lw.grid[ahead].obj = None
FishFacing(lw, coords, direction) ==
    obj(lw, coords).kind = "Fish" /\ obj(lw, coords).direction = direction

TokensGiven == pc = "agents" /\ Called("player_move")

\* C33: give_move_token_to_agents sets move_token on every Slime, Shroomer, Shroom
\* and Fish and changes nothing else: tiles, grounds, visibility, the other fields of
\* the agents, the other objects and the redo counts stay; given again to its own
\* result it changes nothing.
C33_GiveMoveTokens ==
    TokensGiven
        => LET before == logical_world
               after == transition.resulting_lw
           IN  /\ DOMAIN after.grid = DOMAIN before.grid
               /\ [after EXCEPT !.grid = before.grid] = before
               /\ \A c \in DOMAIN before.grid :
                    /\ [after.grid[c] EXCEPT !.obj = before.grid[c].obj] = before.grid[c]
                    /\ IF before.grid[c].obj.kind \in {"Slime", "Shroomer", "Shroom", "Fish"}
                       THEN /\ after.grid[c].obj.move_token
                            /\ [after.grid[c].obj EXCEPT !.move_token = FALSE]
                                = [before.grid[c].obj EXCEPT !.move_token = FALSE]
                       ELSE after.grid[c].obj = before.grid[c].obj
               /\ give_move_token_to_agents(after) = after

\* Tokens given in a room that holds a Slime, a Shroomer, a Fish and a Sword.
C33_Witness ==
    /\ TokensGiven
    /\ {"Slime", "Shroomer", "Fish"}
            \subseteq {obj(transition.resulting_lw, c).kind : c \in TokenTiles(transition.resulting_lw)}
    /\ \E c \in DOMAIN logical_world.grid : obj(logical_world, c) = Sword
    /\ TokenTiles(logical_world) = {}

(***************************************************************************)
(* The phases of the driver                                                *)
(***************************************************************************)
Animating == phase = "WaitingForAnimationsToFinish"
PlayerMoved == call'.op = "player_move" /\ call' # call

\* C34: player_move has an effect only in phase WaitingForPlayerToMakeAMove: while
\* the phase is WaitingForAnimationsToFinish no step is a player move, and a step
\* either takes the first transition of the queue, makes its resulting_lw the current
\* world and keeps the rest of the queue in order, or, the queue being empty, returns
\* to WaitingForPlayerToMakeAMove; the queue holds the agent transitions in the order
\* they were produced.
C34_DriverPhases ==
    /\ [][PlayerMoved => phase = "WaitingForPlayerToMakeAMove" /\ pc = "idle"]_vars
    /\ [][AgentTurnStep => transitions' = Append(transitions, transition')]_vars
    /\ [][(pc = "agents" /\ Animating') => transitions' = transitions]_vars
    /\ [][Animating
            => /\ ~PlayerMoved
               /\ IF transitions = <<>>
                  THEN /\ phase' = "WaitingForPlayerToMakeAMove"
                       /\ UNCHANGED <<logical_world, transitions>>
                  ELSE /\ logical_world' = Head(transitions).resulting_lw
                       /\ transitions' = Tail(transitions)
                       /\ Animating']_vars

\* Animations are awaited with a queue of two agent transitions that lead to
\* different worlds, none of them the current one.
C34_Witness ==
    /\ Animating /\ Len(transitions) = 2
    /\ transitions[1].resulting_lw # transitions[2].resulting_lw
    /\ logical_world # transitions[1].resulting_lw
    /\ logical_world # transitions[2].resulting_lw

Idle == pc = "idle" /\ phase = "WaitingForPlayerToMakeAMove"
Last(q) == q[Len(q)]

\* C35: after an accepted player move the driver eventually is back in phase
\* WaitingForPlayerToMakeAMove.  The queue handed to the animations ends with the
\* last agent transition produced (without agent turn it is empty, and the current
\* world is that of the player's transition); its last element stays the last one
\* until it is taken, its resulting_lw then is the current world, and the phase
\* returns with that world.
C35_TurnEnds ==
    /\ (pc = "agents") ~> Idle
    /\ [][(pc = "agents" /\ pc' = "idle")
            => /\ Animating' /\ UNCHANGED <<logical_world, transitions>>
               /\ IF transitions = <<>>
                  THEN call.op = "player_move" /\ transition.resulting_lw = logical_world
                  ELSE Last(transitions) = transition]_vars
    /\ [][Animating
            => IF Len(transitions) > 1
               THEN Animating' /\ Last(transitions') = Last(transitions)
               ELSE IF Len(transitions) = 1
               THEN /\ Animating' /\ transitions' = <<>>
                    /\ logical_world' = transitions[1].resulting_lw
               ELSE Idle' /\ logical_world' = logical_world]_vars

\* The driver is back in WaitingForPlayerToMakeAMove in a room with a Sword where a
\* Shroomer has moved on its turn and left a Shroom.
C35_Witness ==
    /\ Idle /\ call = NoCall /\ transitions = <<>>
    /\ \E c \in DOMAIN logical_world.grid : obj(logical_world, c) = Sword
    /\ \E c \in DOMAIN logical_world.grid : obj(logical_world, c).kind = "Shroom"

(***************************************************************************)
(* Hit points                                                              *)
(***************************************************************************)
HasHp(lw) == {c \in DOMAIN lw.grid : lw.grid[c].obj.kind \in {"Bunny", "Slime", "Shroomer"}}
HpInRange(lw) ==
    \A c \in HasHp(lw) :
        /\ lw.grid[c].obj.hp >= 1
        /\ lw.grid[c].obj.kind = "Bunny" => lw.grid[c].obj.hp <= lw.grid[c].obj.max_hp

\* The objects with hit points of a world, whoever holds a token: how many tiles of
\* `among` hold o
Untokened(o) == [o EXCEPT !.move_token = FALSE]
HpCount(lw, among, o) == Cardinality({c \in among : Untokened(lw.grid[c].obj) = o})
\* Every object with hit points of `after` is one of `before`, counted with repetitions.
NoHpChange(before, among_before, after, among_after) ==
    \A c \in among_after :
        HpCount(after, among_after, Untokened(after.grid[c].obj))
            <= HpCount(before, among_before, Untokened(after.grid[c].obj))

\* The objects with hit points change from world `before` to the result of t only
\* by removal, by the damages of a Hit event and by a Healed event.
HpStep(before, t) ==
    LET after == t.resulting_lw
        hits == {i \in EventsOfType(t, "Hit") : t.logical_events[i].damages # 0}
        heals == EventsOfType(t, "Healed")
    IN  IF hits = {} /\ heals = {}
        THEN NoHpChange(before, HasHp(before), after, HasHp(after))
        ELSE IF heals = {}
        THEN \E i \in hits :
                LET at == t.logical_events[i].at
                    restored == [after EXCEPT !.grid[at].obj.hp = @ + t.logical_events[i].damages]
                IN  /\ hits = {i} /\ at \in HasHp(after)
                    /\ NoHpChange(before, HasHp(before), restored, HasHp(after))
        ELSE /\ hits = {}
             /\ NoHpChange(before, HasHp(before) \ BunnyCoords(before),
                           after, HasHp(after) \ BunnyCoords(after))
             /\ \A a \in BunnyCoords(after) : \E b \in BunnyCoords(before) :
                    /\ after.grid[a].obj.hp >= before.grid[b].obj.hp
                    /\ after.grid[a].obj.max_hp = before.grid[b].obj.max_hp

\* C36: in every world of the game, every Bunny, Slime and Shroomer has hp >= 1 and
\* the Bunny has hp <= max_hp; from the world a player move or an agent turn starts
\* from to its resulting_lw, an object with hit points loses hp only by the damages
\* of a Hit event and gains hp only with a Healed event.
C36_HitPoints ==
    /\ [](\A lw \in Worlds : HpInRange(lw))
    /\ [][(pc = "idle" /\ pc' = "agents") => HpStep(logical_world, transition')]_vars
    /\ [][AgentTurnStep => HpStep(transition.resulting_lw, transition')]_vars

\* An agent turn hit the Bunny, which has one hit point left.
C36_Witness ==
    /\ pc = "agents" /\ Called("handle_move_for_one_agent")
    /\ \E i \in EventsOfType(transition, "Hit") :
            /\ transition.logical_events[i].damages >= 1
            /\ obj(transition.resulting_lw, transition.logical_events[i].at).kind = "Bunny"
            /\ obj(transition.resulting_lw, transition.logical_events[i].at).hp = 1

(***************************************************************************)
(* The places of the Shrooms                                               *)
(***************************************************************************)
ShroomTiles(lw) == {c \in DOMAIN lw.grid : lw.grid[c].obj.kind = "Shroom"}
NoAdjacentShrooms(lw) ==
    \A a \in ShroomTiles(lw), b \in ShroomTiles(lw) :
        Abs(a[1] - b[1]) + Abs(a[2] - b[2]) # 1
\* From `before` to the result of t no Shroom moves: no Move event starts at the tile
\* of a Shroom, a Shroom that is gone was stomped or sacrificed itself, and a new
\* Shroom stands on the tile a Shroomer has left.
ShroomStep(before, t) ==
    /\ \A c \in ShroomTiles(before) :
        /\ \A i \in EventsOfType(t, "Move") : t.logical_events[i].from # c
        /\ c \notin ShroomTiles(t.resulting_lw)
            => \/ \E i \in EventsOfType(t, "Stomped") : t.logical_events[i].at = c
               \/ \E i \in EventsOfType(t, "MoveInto") : t.logical_events[i].from = c
    /\ \A c \in ShroomTiles(t.resulting_lw) \ ShroomTiles(before) :
            obj(before, c).kind = "Shroomer"

\* C37: with force 2 no Shroom changes position: it is not pushed, not pulled, and
\* leaves the grid only stomped or by its own sacrifice; and no world of the game
\* holds two orthogonally adjacent Shrooms.
C37_ShroomPlacement ==
    /\ [](\A lw \in Worlds : NoAdjacentShrooms(lw))
    /\ [][(pc = "idle" /\ pc' = "agents") => ShroomStep(logical_world, transition')]_vars
    /\ [][AgentTurnStep => ShroomStep(transition.resulting_lw, transition')]_vars

\* The player has moved and pulled the rope behind it; the Shroom behind the rope
\* has stayed.
C37_Witness ==
    /\ pc = "agents" /\ Called("player_move")
    /\ obj(logical_world, <<1, 1>>).kind = "Shroom"
    /\ obj(logical_world, <<2, 1>>) = None
    /\ obj(logical_world, <<3, 1>>) = Rope
    /\ obj(logical_world, <<4, 1>>).kind = "Bunny"

(***************************************************************************)
(* The frame of the resolver                                               *)
(***************************************************************************)
\* Is c on the line through the mover along the direction of the call?
OnCallLine(c) ==
    LET rel == Sub(c, call.coords)
    IN  IF call.direction[1] = 0 THEN rel[1] = 0 ELSE rel[2] = 0
SameButObj(tile, other) == [tile EXCEPT !.obj = other.obj] = other

\* C38: the resulting_lw of try_to_move has the tile coordinates of the input world
\* and the same ground on every tile, and the same object on every tile that is not
\* on the line through the mover along the direction; sacrifice_hit changes only the
\* tile of the attacker and the tile of the target.
C38_ResolverFrame ==
    LET before == logical_world.grid
        after == transition.resulting_lw.grid
    IN  /\ Called("try_to_move")
            => /\ DOMAIN after = DOMAIN before
               /\ \A c \in DOMAIN before :
                    /\ after[c].ground = before[c].ground
                    /\ ~OnCallLine(c) => after[c].obj = before[c].obj
        /\ Called("sacrifice_hit")
            => /\ DOMAIN after = DOMAIN before
               /\ \A c \in DOMAIN before \ {At(0), At(1)} : after[c] = before[c]

\* A Shroomer with a rope at its side has moved along the row and left a Shroom: the
\* rope beside the line is where it was.
C38_Witness ==
    /\ Called("try_to_move") /\ call.coords = <<0, 0>> /\ call.direction = <<1, 0>>
    /\ obj(logical_world, <<0, 0>>).kind = "Shroomer"
    /\ obj(logical_world, <<0, 1>>) = Rope
    /\ obj(transition.resulting_lw, <<0, 1>>) = Rope
    /\ obj(transition.resulting_lw, <<0, 0>>).kind = "Shroom"
    /\ obj(transition.resulting_lw, <<1, 0>>).kind = "Shroomer"

\* C39: while the phase is WaitingForPlayerToMakeAMove no object of the current
\* world holds a move token; tokens are held only in worlds of the agent loop: the
\* last transition of the queue the loop hands over, with which the phase returns,
\* holds none.
C39_NoTokenWhileWaiting ==
    /\ phase = "WaitingForPlayerToMakeAMove" => TokenTiles(logical_world) = {}
    /\ (Animating /\ transitions # <<>>)
            => TokenTiles(transitions[Len(transitions)].resulting_lw) = {}
    /\ (Animating /\ transitions = <<>>) => TokenTiles(logical_world) = {}

\* The driver waits for the player after a turn in which agents have acted, in a
\* room with three agents.
C39_Witness ==
    /\ Idle /\ call = NoCall
    /\ logical_world \notin GameWorlds
    /\ Cardinality(Agents(logical_world)) >= 3
    /\ TokenTiles(logical_world) = {}

(***************************************************************************)
(* The turns without player                                                *)
(***************************************************************************)
\* C40: in a world without Bunny the turn of an agent of any kind decides nothing:
\* its transition has no event, and its resulting_lw is the world of the turn with
\* the token of the selected agent taken, which holds no Bunny either.
C40_NoPlayerNoDecision ==
    [][(AgentTurnStep /\ BunnyCoords(transition.resulting_lw) = {})
        => /\ call'.direction = NoDecision
           /\ transition'.logical_events = <<>>
           /\ transition'.panic = ""
           /\ \A c \in DOMAIN transition.resulting_lw.grid \ {call'.coords} :
                transition'.resulting_lw.grid[c] = transition.resulting_lw.grid[c]
           /\ [transition'.resulting_lw EXCEPT !.grid[call'.coords].obj.move_token = TRUE]
                = transition.resulting_lw
           /\ BunnyCoords(transition'.resulting_lw) = {}]_vars

\* A Fish took its turn in a world without Bunny where a Slime is still to act.
C40_Witness ==
    /\ pc = "agents" /\ Called("handle_move_for_one_agent")
    /\ BunnyCoords(transition.resulting_lw) = {}
    /\ obj(transition.resulting_lw, call.coords).kind = "Fish"
    /\ call.direction = NoDecision /\ transition.logical_events = <<>>
    /\ \E c \in TokenTiles(transition.resulting_lw) :
            obj(transition.resulting_lw, c).kind = "Slime"

====
